---- MODULE Spec2Model ----
(***************************************************************************)
(* Combat and monster-AI simulation of the isometric MMO prototype:        *)
(* the combat stat block (CombatStats), the combat system (CombatSystem),  *)
(* and the monster with its AI controller (Monster, MonsterAI).            *)
(*                                                                         *)
(* Each subsystem has its own specification over the shared variables:     *)
(*   SpecStats   - one CombatStats object driven through its public API    *)
(*   SpecCombat  - the CombatSystem over three registered entities         *)
(*   SpecMonster - one Monster, its MonsterAI, its timers and one player   *)
(*   SpecValidate - DamageCalculator.validateAttack on drawn arguments     *)
(*   SpecAi1     - the first iteration of MonsterAI with its timers        *)
(*   SpecEffects - one StatusEffectManager and the effects of one id       *)
(*   SpecListeners - the listeners of the CombatSystem and of a stat block *)
(*   SpecAttack  - CombatSystem.processAttack on drawn arguments           *)
(*   SpecSkill   - CombatSystem.processSkillUse on drawn arguments         *)
(*   SpecDamage  - DamageCalculator.calculateBasicAttackDamage on drawn    *)
(*                 arguments                                               *)
(*   SpecAuto    - the auto-attack loop of the InputManager                *)
(*   SpecRegistry - the Entity Directory and the CombatSystem records      *)
(*   SpecSync    - one entity object and its stat block                    *)
(*   SpecDuel    - two entities attacking each other                       *)
(***************************************************************************)
EXTENDS Integers, Sequences, FiniteSets, TLC

VARIABLES
  cs,        \* the CombatStats object under test (record of its fields)
  csDeaths,  \* death-listener invocations since construction / last revive
  csRet,     \* the last CombatStats call and what it returned / fired
  stats,     \* entity id -> that entity's combatStats
  entities,  \* CombatSystem.entities: registered id -> its attackTargets set
  wired,     \* entity id -> number of times setupEntity wired its listeners
  now,       \* Date.now()
  lastSuccessAt, \* entity id -> time of its last successful processAttack (-1: none)
  aiAggro,   \* monster id -> attacker the damage handler passed to ai.setAggroTarget
  sysRet,    \* the last CombatSystem call and what it returned
  mon,       \* the Monster object (record of its fields)
  ai,        \* its MonsterAI object (fields and timer handles)
  tm,        \* pending timers no handle field of the AI refers to
  pl,        \* player id -> the player as the entity manager holds it
  monRet,    \* the last operation applied to the monster
  va,        \* a validateAttack or processAttack call: its arguments and its outcome
  ai1,       \* a MonsterAI of the first iteration with its monster and player
  fx,        \* a StatusEffect and whether the holder's manager holds it
  fxNow,     \* Date.now() of the status-effect engine, in ticks
  fxRet,     \* the last status-effect call: its kind, what it met, what it notified
  ln,        \* an attacker, a target and the listeners registered for their events
  lnRet,     \* the last call of that engine: its outcome and the listeners it reached
  im,        \* the InputManager's auto-attack fields, the monsters it sees, its last handler
  reg,       \* the Entity Directory, the CombatSystem's records, the last damage applied
  ent,       \* one entity object with its own hp / isDead and its combatStats
  duel       \* two entities attacking each other: stat blocks, MP, clock

statsVars == <<cs, csDeaths, csRet>>
combatVars == <<stats, entities, wired, now, lastSuccessAt, aiAggro, sysRet>>
monsterVars == <<mon, ai, tm, pl, monRet>>
validateVars == <<va>>
ai1Vars == <<ai1>>
effectVars == <<fx, fxNow, fxRet>>
\* the variables of the specifications other than SpecStats, SpecCombat, SpecMonster
listenerVars == <<ln, lnRet>>
\* the client-side controls
clientVars == <<im, reg, ent, duel>>
extVars == <<validateVars, ai1Vars, effectVars, listenerVars, clientVars>>
vars == <<cs, csDeaths, csRet, stats, entities, wired, now, lastSuccessAt, aiAggro, sysRet,
          mon, ai, tm, pl, monRet, va, ai1, fx, fxNow, fxRet, ln, lnRet, im, reg, ent,
          duel>>

---------------------------------------------------------------------------
(* Arithmetic helpers *)

Min(a, b) == IF a <= b THEN a ELSE b
Max(a, b) == IF a >= b THEN a ELSE b

\* Math.floor in the place of Math.round
Round_floor(num, den) == num \div den

\* Math.round(num / den) for den > 0: floor(x + 1/2), halves go up
Round(num, den) == (2 * num + den) \div (2 * den)

\* Math.floor(num / den) for den > 0
Floor(num, den) == num \div den

\* JavaScript "a || d" on numbers: 0 is falsy
OrElse(a, d) == IF a = 0 THEN d ELSE a

---------------------------------------------------------------------------
(* combatConfig.js *)

BASE_HP == 100
BASE_MP == 50
BASE_ATTACK == 10
BASE_DEFENSE == 5
HP_PER_LEVEL == 10
ATTACK_PER_LEVEL == 2
DEFENSE_PER_LEVEL == 1
DEFAULT_ATTACK_COOLDOWN == 1000
\* CRITICAL_MULTIPLIER 1.5, in tenths
CRITICAL_MULTIPLIER == 15
\* MELEE_RANGE 1.5, in hundredths of a world unit
MELEE_RANGE == 150
\* ATTACK_RANGE_TOLERANCE 1.2, in hundredths
ATTACK_RANGE_TOLERANCE == 120

DamageTypes == {"physical", "magical", "true"}

---------------------------------------------------------------------------
(* Bounds of the model *)

\* largest magnitude of an amount passed to applyDamage / heal
MaxAmount == 12
\* largest maxHp a stat block under test is constructed with
MaxMaxHp == 10

\* amounts a caller may pass: the API takes any number
DamageAmounts == (0 - 2) .. MaxAmount
HealAmounts == (0 - MaxAmount) .. MaxAmount
\* revive(healthPercent): documented range 0-100
RevivePercents == {0, 50, 100}
\* number of clock steps the combat system is observed for
MaxTicks == 2
\* Math.random() outcomes of one attack: <<0.9 + random * 0.2 in hundredths,
\* whether the critical roll succeeded>>
Rolls == {<<90, FALSE>>, <<110, TRUE>>}
\* aggro-loss timeouts left pending behind the aggroTimeout handle
MaxOrphans == 1
\* delayed pursueTarget calls of the monsterDamaged handler pending at once
MaxPursue == 1
\* respawn timers pending at once
MaxRespawn == 1
\* hit points of a player
PlayerMaxHp == 1
\* damage of one hit on the monster (the 20 hp scenario: 15, then 10)
HitAmounts == {10, 15}
\* hp values the server reports in monsterDamaged
ServerHps == {0, 10}
\* amounts passed to CombatSystem.applyDamage
SysDamageAmounts == {9, 30}
\* defense / resistance configurations a stat block is constructed with
DefenseValues == {0, 5}
ResistValues == {0, 50, 150}

---------------------------------------------------------------------------
(* CombatStats.js: class CombatStats *)

\* constructor(initialStats): 0 stands for an absent (falsy) field
CombatStats_new(init) ==
  LET level == OrElse(init.level, 1)
      baseHp == BASE_HP + HP_PER_LEVEL * (level - 1)
      baseAttack == BASE_ATTACK + ATTACK_PER_LEVEL * (level - 1)
      baseDefense == BASE_DEFENSE + DEFENSE_PER_LEVEL * (level - 1)
      maxHp == OrElse(init.maxHp, baseHp)
  IN [ maxHp |-> maxHp,
       hp |-> OrElse(init.hp, maxHp),
       attack |-> OrElse(init.attack, baseAttack),
       defense |-> OrElse(init.defense, baseDefense),
       level |-> level,
       resist |-> init.resist,
       attackRange |-> OrElse(init.attackRange, MELEE_RANGE),
       isDead |-> FALSE,
       lastAttackTime |-> 0,
       attackCooldown |-> OrElse(init.attackCooldown, DEFAULT_ATTACK_COOLDOWN) ]

\* die() without its "already dead" early return
CombatStats_die_noGuard(s) ==
  [stats |-> [s EXCEPT !.isDead = TRUE, !.hp = 0], deathFired |-> TRUE]

\* die(): returns the new fields and whether the death listeners were notified
CombatStats_die(s) ==
  IF s.isDead
    THEN [stats |-> s, deathFired |-> FALSE]
    ELSE [stats |-> [s EXCEPT !.isDead = TRUE, !.hp = 0], deathFired |-> TRUE]

\* applyDamage(amount, type, attackerId, options)
CombatStats_applyDamage(s, amount, type) ==
  IF s.isDead
    THEN [stats |-> s, damage |-> 0, targetDied |-> FALSE,
          deathFired |-> FALSE, damageFired |-> FALSE]
    ELSE
      LET mitigated == type # "true"
          \* absorbedByDefense, in tenths: min(amount * 0.6, defense * 0.8)
          absorbed10 == IF mitigated /\ type = "physical" /\ s.defense > 0
                          THEN Min(6 * amount, 8 * s.defense) ELSE 0
          resistance == IF mitigated /\ s.resist[type] # 0 THEN s.resist[type] ELSE 0
          \* (amount - absorbed) * (1 - resistance / 100), in thousandths
          final1000 == Max(0, (10 * amount - absorbed10) * (100 - resistance))
          roundedDamage == Round(final1000, 1000)
          hp1 == Max(0, s.hp - roundedDamage)
          targetDied == hp1 <= 0
          s1 == [s EXCEPT !.hp = hp1]
          d == IF targetDied /\ ~s1.isDead
                 THEN CombatStats_die(s1)
                 ELSE [stats |-> s1, deathFired |-> FALSE]
      IN [stats |-> d.stats, damage |-> roundedDamage, targetDied |-> targetDied,
          deathFired |-> d.deathFired, damageFired |-> TRUE]

\* heal() without its "dead" early return
CombatStats_heal_noGuard(s, amount) ==
  LET hp1 == Min(s.maxHp, s.hp + amount)
  IN [stats |-> [s EXCEPT !.hp = hp1], healed |-> hp1 - s.hp, healFired |-> TRUE]

\* heal(amount, healerId, options)
CombatStats_heal(s, amount) ==
  IF s.isDead
    THEN [stats |-> s, healed |-> 0, healFired |-> FALSE]
    ELSE LET hp1 == Min(s.maxHp, s.hp + amount)
         IN [stats |-> [s EXCEPT !.hp = hp1], healed |-> hp1 - s.hp, healFired |-> TRUE]

\* revive(healthPercent)
CombatStats_revive(s, healthPercent) ==
  IF ~s.isDead
    THEN [stats |-> s, reviveFired |-> FALSE]
    ELSE [stats |-> [s EXCEPT !.isDead = FALSE,
                              !.hp = Max(1, Floor(s.maxHp * healthPercent, 100))],
          reviveFired |-> TRUE]

\* canAttack(currentTime) without the cooldown comparison
CombatStats_canAttack_noCooldown(s, currentTime) == ~s.isDead

\* canAttack(currentTime)
CombatStats_canAttack(s, currentTime) ==
  ~s.isDead /\ (currentTime - s.lastAttackTime >= s.attackCooldown)

\* registerAttack(currentTime)
CombatStats_registerAttack(s, currentTime) == [s EXCEPT !.lastAttackTime = currentTime]


---------------------------------------------------------------------------
(* Entities handed to the combat system *)

None == "none"
EntityIds == {"p1", "m1", "m2"}
MonsterIds == {"m1", "m2"}

\* monster.js constructor: this.type = data.type || 'poring'  ("" is absent)
Monster_type(dataType) == IF dataType = "" THEN "poring" ELSE dataType

\* entity.type: a Monster carries its species, a Player sets no type
EntityType(id) ==
  CASE id = "m1" -> Monster_type("")
    [] id = "m2" -> Monster_type("zombie")
    [] OTHER -> "undefined"

\* entity.position (monster.js sets it from the model), in hundredths of a
\* world unit along one axis; Player objects have no position property
EntityHasPosition(id) == id \in MonsterIds
EntityPosition(id) == IF id = "m1" THEN 0 ELSE 100

\* entity.radius || 0.5, in hundredths
EntityRadius(id) == 50

\* entity.ai exists on monsters only
EntityHasAi(id) == id \in MonsterIds

Abs(x) == IF x < 0 THEN 0 - x ELSE x

---------------------------------------------------------------------------
(* DamageCalculator.js: class DamageCalculator *)

\* calculateBasicAttackDamage with the critical multiplier applied twice
DamageCalculator_calculateBasicAttackDamageOpt_critTwice(attack, factor, crit, multiplier10) ==
  LET m == OrElse(multiplier10, 10)
  IN IF crit THEN Round(attack * factor * CRITICAL_MULTIPLIER * CRITICAL_MULTIPLIER * m, 100000)
             ELSE Round(attack * factor * m, 1000)

\* calculateBasicAttackDamage(attacker, target, options): the damage for an
\* attacker with the default critMultiplier; factor is 0.9 + random * 0.2 in
\* hundredths, multiplier10 is options.damageMultiplier in tenths (0: absent)
DamageCalculator_calculateBasicAttackDamageOpt(attack, factor, crit, multiplier10) ==
  LET m == OrElse(multiplier10, 10)
  IN IF crit THEN Round(attack * factor * CRITICAL_MULTIPLIER * m, 10000)
             ELSE Round(attack * factor * m, 1000)

\* calculateBasicAttackDamage: factor is 0.9 + Math.random() * 0.2 in
\* hundredths, crit the outcome of the critical roll
DamageCalculator_calculateBasicAttackDamage(attackerStats, factor, crit) ==
  [ damage |-> IF crit
                 THEN Round(attackerStats.attack * factor * CRITICAL_MULTIPLIER, 1000)
                 ELSE Round(attackerStats.attack * factor, 100),
    type |-> "physical",
    critical |-> crit ]

\* options of an attack as the callers pass them; range 0 stands for "not given"
NoOptions == [canTargetDead |-> FALSE, ignoreRange |-> FALSE, range |-> 0]

\* isInRange(attacker, target, options); st maps the entities that carry
\* combatStats to their stat block
DamageCalculator_isInRange(st, a, t, options) ==
  IF a = None \/ t = None \/ ~EntityHasPosition(a) \/ ~EntityHasPosition(t)
    THEN FALSE
    ELSE LET distance == Abs(EntityPosition(a) - EntityPosition(t))
             range == IF options.range # 0 THEN options.range
                      ELSE IF a \in DOMAIN st THEN st[a].attackRange ELSE MELEE_RANGE
             \* attackRange *= (1 + ATTACK_RANGE_TOLERANCE), times 100
             attackRange100 == range * (100 + ATTACK_RANGE_TOLERANCE)
         IN 100 * distance <= attackRange100 + 100 * EntityRadius(t)

\* validateAttack with the cooldown tested before the two death tests
DamageCalculator_validateAttack_cooldownFirst(st, a, t, time, options) ==
  IF a = None \/ t = None THEN "Entidades inválidas"
  ELSE IF a \in DOMAIN st /\ ~CombatStats_canAttack(st[a], time) THEN "Atacante em cooldown"
  ELSE IF a \in DOMAIN st /\ st[a].isDead THEN "Atacante está morto"
  ELSE IF ~options.canTargetDead /\ t \in DOMAIN st /\ st[t].isDead THEN "Alvo está morto"
  ELSE IF ~options.ignoreRange /\ ~DamageCalculator_isInRange(st, a, t, options)
    THEN "Alvo fora de alcance"
  ELSE "valid"

\* validateAttack without its test of the target's death
DamageCalculator_validateAttack_deadTargetAllowed(st, a, t, time, options) ==
  IF a = None \/ t = None THEN "Entidades inválidas"
  ELSE IF a \in DOMAIN st /\ st[a].isDead THEN "Atacante está morto"
  ELSE IF a \in DOMAIN st /\ ~CombatStats_canAttack(st[a], time) THEN "Atacante em cooldown"
  ELSE IF ~options.ignoreRange /\ ~DamageCalculator_isInRange(st, a, t, options)
    THEN "Alvo fora de alcance"
  ELSE "valid"

\* validateAttack(attacker, target, options): the reason, or "valid"
DamageCalculator_validateAttack(st, a, t, time, options) ==
  IF a = None \/ t = None THEN "Entidades inválidas"
  ELSE IF a \in DOMAIN st /\ st[a].isDead THEN "Atacante está morto"
  ELSE IF ~options.canTargetDead /\ t \in DOMAIN st /\ st[t].isDead THEN "Alvo está morto"
  ELSE IF a \in DOMAIN st /\ ~CombatStats_canAttack(st[a], time) THEN "Atacante em cooldown"
  ELSE IF ~options.ignoreRange /\ ~DamageCalculator_isInRange(st, a, t, options)
    THEN "Alvo fora de alcance"
  ELSE "valid"

---------------------------------------------------------------------------
(* CombatSystem.js: class CombatSystem *)

\* setupEntity(entity) without its "already registered" early return
CombatSystem_setupEntity_noGuard(sys, id) ==
  [ entities |-> (id :> {}) @@ sys.entities,
    wired |-> [sys.wired EXCEPT ![id] = @ + 1] ]

\* setupEntity(entity): registers the entity and wires its stat listeners
CombatSystem_setupEntity(sys, id) ==
  IF id \in DOMAIN sys.entities
    THEN sys
    ELSE [ entities |-> sys.entities @@ (id :> {}),
           wired |-> [sys.wired EXCEPT ![id] = @ + 1] ]

\* _handleEntityDeath(entity): drop the id from every attackTargets set
CombatSystem_handleEntityDeath(ents, id) ==
  [a \in DOMAIN ents |-> ents[a] \ {id}]

\* _handleEntityDamaged(entity, amount, type, attackerId, options): the aggro
\* target the entity's AI holds afterwards
CombatSystem_handleEntityDamaged(aggro, st, id, attackerId) ==
  IF EntityType(id) = "monster" /\ attackerId # None /\ ~st[id].isDead
    THEN IF attackerId \in EntityIds /\ EntityHasAi(id)
           THEN [aggro EXCEPT ![id] = attackerId]
           ELSE aggro
    ELSE aggro

\* the stat blocks after setupEntity(id): an entity without combatStats gets
\* new CombatStats({level: 1, type})
CombatSystem_setupStats(st, id) ==
  IF id \in DOMAIN st
    THEN st
    ELSE st @@ (id :> CombatStats_new([level |-> 1, maxHp |-> 0, hp |-> 0, attack |-> 0,
                                       defense |-> 0, attackCooldown |-> 0, attackRange |-> 0,
                                       resist |-> [d \in DamageTypes |-> 0]]))

NoStamp == 0 - 1

\* a processAttack that returns { success: false, message }
CombatSystem_attackRejected(st, message) ==
  [ stats |-> st, stamp |-> NoStamp, targets |-> {}, attackFired |-> FALSE,
    success |-> FALSE, message |-> message, damage |-> 0 ]

\* processAttack(attacker, target, options) on entities not yet registered:
\* the stat blocks, _lastAttackTime[attacker], the attacker's attackTargets,
\* whether the attack event was broadcast, and the result returned
CombatSystem_processAttack(st, a, t, time, options, roll) ==
  IF a = None \/ t = None
    THEN CombatSystem_attackRejected(st, "Entidades inválidas para ataque")
    ELSE
      LET st1 == CombatSystem_setupStats(CombatSystem_setupStats(st, a), t)
          reason == DamageCalculator_validateAttack(st1, a, t, time, options)
      IN IF reason # "valid" THEN CombatSystem_attackRejected(st1, reason)
         ELSE IF ~CombatStats_canAttack(st1[a], time)
           THEN CombatSystem_attackRejected(st1, "Ainda em cooldown de ataque")
         ELSE
           LET st2 == [st1 EXCEPT ![a] = CombatStats_registerAttack(@, time)]
               dmg == DamageCalculator_calculateBasicAttackDamage(st2[a], roll[1], roll[2])
               r == CombatStats_applyDamage(st2[t], dmg.damage, dmg.type)
           IN [ stats |-> [st2 EXCEPT ![t] = r.stats], stamp |-> time, targets |-> {t},
                attackFired |-> TRUE, success |-> TRUE, message |-> "",
                damage |-> r.damage ]

\* CombatStats.consumeMp(amount) without its test of the MP left
CombatStats_consumeMp_noCheck(mp, amount) == [ok |-> TRUE, mp |-> mp - amount]

\* CombatStats.consumeMp(amount) on a stat block holding mp
CombatStats_consumeMp(mp, amount) ==
  IF mp < amount THEN [ok |-> FALSE, mp |-> mp] ELSE [ok |-> TRUE, mp |-> mp - amount]

\* calculateSkillDamage(attacker, target, skill) for a skill without scaling,
\* critChanceBonus or critMultiplier; factor is 0.95 + random * 0.1 in hundredths
DamageCalculator_calculateSkillDamage(attackerStats, skill, factor, crit) ==
  LET baseDamage == OrElse(skill.baseDamage, attackerStats.attack)
  IN [ damage |-> IF crit THEN Round(baseDamage * factor * CRITICAL_MULTIPLIER, 1000)
                          ELSE Round(baseDamage * factor, 100),
       type |-> "physical",
       critical |-> crit ]

\* a processSkillUse that returns { success: false, message }
CombatSystem_skillRejected(st, mp, message, log) ==
  [ stats |-> st, mp |-> mp, success |-> FALSE, message |-> message, log |-> log ]

\* processSkillUse that goes on to the damage whatever validateAttack answers
CombatSystem_processSkillUse_noValidate(st, mp, a, t, time, skill, roll) ==
  IF a = None \/ t = None
    THEN CombatSystem_skillRejected(st, mp, "Parâmetros inválidos para uso de habilidade", <<>>)
    ELSE
      LET st1 == CombatSystem_setupStats(CombatSystem_setupStats(st, a), t)
          mp1 == IF a \in DOMAIN st THEN mp ELSE BASE_MP
          paid == IF skill.mpCost # 0 THEN CombatStats_consumeMp(mp1, skill.mpCost)
                                     ELSE [ok |-> TRUE, mp |-> mp1]
          log1 == IF skill.mpCost # 0 THEN <<"consumeMp">> ELSE <<>>
      IN IF ~paid.ok THEN CombatSystem_skillRejected(st1, paid.mp, "MP insuficiente", log1)
         ELSE
           LET dmg == DamageCalculator_calculateSkillDamage(st1[a], skill, roll[1], roll[2])
               r == CombatStats_applyDamage(st1[t], dmg.damage, dmg.type)
           IN [ stats |-> [st1 EXCEPT ![t] = r.stats], mp |-> paid.mp, success |-> TRUE,
                message |-> "", log |-> Append(log1, "applyDamage") ]

\* processSkillUse(attacker, target, skill) on entities not yet registered:
\* the stat blocks and the attacker's MP afterwards, the result returned, and
\* the calls made on the way, in order
CombatSystem_processSkillUse(st, mp, a, t, time, skill, roll) ==
  IF a = None \/ t = None
    THEN CombatSystem_skillRejected(st, mp, "Parâmetros inválidos para uso de habilidade", <<>>)
    ELSE
      LET st1 == CombatSystem_setupStats(CombatSystem_setupStats(st, a), t)
          mp1 == IF a \in DOMAIN st THEN mp ELSE BASE_MP
          paid == IF skill.mpCost # 0 THEN CombatStats_consumeMp(mp1, skill.mpCost)
                                     ELSE [ok |-> TRUE, mp |-> mp1]
          log1 == IF skill.mpCost # 0 THEN <<"consumeMp">> ELSE <<>>
          customOptions == [range |-> skill.range, ignoreRange |-> skill.ignoreRange,
                            canTargetDead |-> skill.canTargetDead]
          reason == DamageCalculator_validateAttack(st1, a, t, time, customOptions)
          log2 == Append(log1, "validateAttack")
      IN IF ~paid.ok THEN CombatSystem_skillRejected(st1, paid.mp, "MP insuficiente", log1)
         ELSE IF reason # "valid" THEN CombatSystem_skillRejected(st1, paid.mp, reason, log2)
         ELSE
           LET dmg == DamageCalculator_calculateSkillDamage(st1[a], skill, roll[1], roll[2])
               r == CombatStats_applyDamage(st1[t], dmg.damage, dmg.type)
               log3 == Append(log2, "applyDamage")
               log4 == IF skill.effects THEN Append(log3, "applySkillEffects") ELSE log3
           IN [ stats |-> [st1 EXCEPT ![t] = r.stats], mp |-> paid.mp, success |-> TRUE,
                message |-> "", log |-> Append(log4, "notifyAttack") ]

---------------------------------------------------------------------------
(* Monster and MonsterAI: configuration *)

PlayerIds == {"P1"}

\* Monster constructor defaults: hp / maxHp 20, aggroRange 5.0 (hundredths)
MONSTER_MAX_HP == 20
MONSTER_AGGRO_RANGE == 500
\* MONSTER_AI_CONFIG.aggroRadius 8 (hundredths)
AI_AGGRO_RADIUS == 800

MonsterTypes == {"poring", "zombie"}

\* MONSTER_AI_CONFIG.monsterTypes as applied by Monster.applyTypeConfig,
\* lengths in hundredths of a world unit
TypeConfig(type) ==
  IF type = "zombie"
    THEN [isAggressive |-> TRUE, aggroRadius |-> 600, attackRange |-> 120, attackDamage |-> 10]
    ELSE [isAggressive |-> FALSE, aggroRadius |-> 0, attackRange |-> 100, attackDamage |-> 3]

\* monster-to-player distances the model distinguishes (hundredths): inside
\* every attack range, outside it in pursuit range, beyond 1.5 * aggroRange
Distances == {50, 130, 900}

\* the next smaller distance, reached when a pursuit step closes the gap
Closer(d) == IF d = 50 THEN 50 ELSE CHOOSE c \in Distances : c < d /\ \A e \in Distances : e < d => e <= c


---------------------------------------------------------------------------
(* The world a handler runs in: w = [mon, ai, tm, pl, threw, rnd, step,      *)
(* attacks]                                                                 *)
(*   mon  the Monster fields, ai the MonsterAI fields                       *)
(*   tm   timers pending in the runtime that no AI handle field refers to   *)
(*   pl   the players of the entity manager                                 *)
(*   threw  a TypeError is propagating; rnd, step  the Math.random draws;   *)
(*   attacks  the attacks performAttack has carried out in this handler     *)
(* Timer handle fields hold "pending"/"running" (the handle of a live timer) *)
(* or "null"; the handle of a timer that has fired is held as "null" too,   *)
(* clearing it does nothing.                                                *)

\* Entity.stopMovement()
Monster_stopMovement(w) == [w EXCEPT !.mon.isMoving = FALSE]

\* MonsterAI.stopWandering()
AI_stopWandering(w) == [w EXCEPT !.ai.wanderTimeout = "null"]

\* MonsterAI.stopAttacking()
AI_stopAttacking(w) == [w EXCEPT !.ai.attackInterval = "null"]

\* MonsterAI.clearAllTimers(): clears the timers the four handle fields name
AI_clearAllTimers(w) ==
  [w EXCEPT !.ai.wanderTimeout = "null", !.ai.aggroTimeout = "null",
            !.ai.checkPlayersInterval = "null", !.ai.attackInterval = "null"]

\* MonsterAI.loseAggroTarget(): the new timeout overwrites the handle; a
\* still pending earlier timeout stays scheduled
AI_loseAggroTarget(w) ==
  IF w.ai.aggroTarget = None
    THEN w
    ELSE LET w1 == IF w.ai.state = "attack" THEN AI_stopAttacking(w) ELSE w
         IN [w1 EXCEPT !.tm.orphanAggro = @ + (IF w.ai.aggroTimeout = "pending" THEN 1 ELSE 0),
                       !.ai.aggroTimeout = "pending"]

\* MonsterAI.scheduleNextWander()
AI_scheduleNextWander(w) ==
  IF ~w.ai.isActive \/ w.mon.isDead \/ w.ai.state \in {"aggro", "attack"}
    THEN w
    ELSE [w EXCEPT !.ai.wanderTimeout = "pending"]

\* MonsterAI.startCheckingForPlayers()
AI_startCheckingForPlayers(w) == [w EXCEPT !.ai.checkPlayersInterval = "running"]

\* MonsterAI.wander()
AI_wander(w) ==
  IF ~w.ai.isActive \/ w.mon.isDead \/ w.mon.isMoving \/ w.ai.state \in {"aggro", "attack"}
    THEN w
    ELSE [w EXCEPT !.mon.isMoving = TRUE]

\* Player.takeDamage(damage, attackerId) with Player.die()
Player_takeDamage(pr, damage) ==
  IF pr.isDead
    THEN pr
    ELSE LET hp1 == Max(0, pr.hp - damage)
         IN [pr EXCEPT !.hp = hp1, !.isDead = (hp1 <= 0)]

\* EntityManager.damagePlayer(playerId, damage, attackerId), direct path
EntityManager_damagePlayer(w, playerId, damage) ==
  IF w.pl[playerId].present
    THEN [w EXCEPT !.pl[playerId] = Player_takeDamage(@, damage)]
    ELSE w

\* the damage MonsterAI.performAttack computes against a player without
\* combat stats (level 10, defense 20) for a level 1 monster:
\* max(1, floor(attack * 0.5 * (1 - 20 / 75) * variation))
AI_attackDamage(monsterAttack, variation) ==
  Max(1, Floor(monsterAttack * 55 * variation, 2 * 75 * 100))

\* the player registered under the aggro target id, with a model
TargetPresent(w) == w.ai.aggroTarget \in PlayerIds /\ w.pl[w.ai.aggroTarget].present

RECURSIVE AI_setState(_, _), AI_startAttacking(_), AI_performAttack(_), AI_pursueTarget(_)

\* MonsterAI.setState(state)
AI_setState(w, state) ==
  LET w1 == [w EXCEPT !.ai.state = state]
  IN IF w.ai.state = state THEN w1
     ELSE IF state = "aggro" THEN AI_stopWandering(w1)
     ELSE IF state = "attack" THEN AI_startAttacking(Monster_stopMovement(w1))
     ELSE w1

\* MonsterAI.startAttacking()
AI_startAttacking(w) ==
  IF ~w.ai.isActive \/ w.mon.isDead \/ w.ai.aggroTarget = None
    THEN w
    ELSE LET w1 == IF w.ai.state # "attack" THEN AI_setState(w, "attack") ELSE w
             w2 == AI_stopAttacking(Monster_stopMovement(w1))
             w3 == AI_performAttack(w2)
         IN IF w1.threw THEN w1
            ELSE IF w3.threw THEN w3
            ELSE [w3 EXCEPT !.ai.attackInterval = "running"]

\* MonsterAI.performAttack()
AI_performAttack(w) ==
  IF ~w.ai.isActive \/ w.mon.isDead \/ w.ai.aggroTarget = None
    THEN AI_stopAttacking(w)
  ELSE IF ~TargetPresent(w)
    THEN AI_loseAggroTarget(w)
  ELSE IF 100 * w.pl[w.ai.aggroTarget].dist > w.mon.attackRange * 120
    THEN AI_pursueTarget(AI_stopAttacking(AI_setState(w, "aggro")))
  ELSE LET damage == AI_attackDamage(w.mon.attackDamage, Head(w.rnd))
       IN [EntityManager_damagePlayer(w, w.ai.aggroTarget, damage)
             EXCEPT !.rnd = Tail(@), !.attacks = @ + 1]

\* MonsterAI.pursueTarget(): stopMoving and startMovingAnimation are not
\* methods of the class, calling them raises a TypeError
AI_pursueTarget(w) ==
  IF ~w.ai.isActive \/ w.mon.isDead
    THEN [w EXCEPT !.threw = TRUE]
  ELSE IF w.ai.aggroTarget = None
    THEN AI_loseAggroTarget(w)
  ELSE IF ~TargetPresent(w)
    THEN AI_loseAggroTarget(w)
  ELSE LET distance == w.pl[w.ai.aggroTarget].dist
       IN IF distance <= w.mon.attackRange
            THEN LET w1 == AI_setState(w, "attack")
                 IN IF w1.threw THEN w1 ELSE AI_startAttacking(w1)
          ELSE IF 10 * distance > w.mon.aggroRange * 15
            THEN AI_loseAggroTarget(w)
          ELSE [w EXCEPT !.pl[w.ai.aggroTarget].dist = IF w.step THEN Closer(@) ELSE @,
                         !.threw = TRUE]

\* MonsterAI.setAggroTarget(playerId)
AI_setAggroTarget(w, playerId) ==
  IF playerId = None \/ ~w.ai.isActive \/ w.mon.isDead
    THEN w
    ELSE LET w1 == AI_stopWandering(IF w.mon.isMoving THEN Monster_stopMovement(w) ELSE w)
         IN IF w1.ai.aggroTarget = playerId
              THEN AI_pursueTarget(IF w1.ai.state \notin {"aggro", "attack"}
                                     THEN AI_setState(w1, "aggro") ELSE w1)
              ELSE AI_pursueTarget(
                     AI_setState([w1 EXCEPT !.ai.aggroTarget = playerId,
                                            !.ai.aggroTimeout = "null"], "aggro"))

\* the player checkForPlayersInRange picks: alive, inside the aggro radius,
\* nearest, the first registered on a tie
ClosestPlayer(w) ==
  LET inRange == {p \in PlayerIds : /\ w.pl[p].present /\ ~w.pl[p].isDead
                                    /\ w.pl[p].dist <= w.ai.aggroRadius}
  IN IF inRange = {} THEN None
     ELSE IF "P1" \in inRange /\ \A q \in inRange : w.pl["P1"].dist <= w.pl[q].dist THEN "P1"
     ELSE CHOOSE p \in inRange : \A q \in inRange : w.pl[p].dist <= w.pl[q].dist

\* MonsterAI.checkForPlayersInRange()
AI_checkForPlayersInRange(w) ==
  IF ~w.ai.isActive \/ w.mon.isDead THEN w
  ELSE IF w.ai.aggroTarget # None /\ w.ai.state \in {"aggro", "attack"} THEN w
  ELSE IF ~w.ai.isAggressive THEN w
  ELSE IF ClosestPlayer(w) = None THEN w
  ELSE AI_setAggroTarget(w, ClosestPlayer(w))

\* MonsterAI.update(): wanderRoll is the outcome of the idle-time test and
\* the wanderChance roll
AI_update(w, wanderRoll) ==
  IF ~w.ai.isActive \/ w.mon.isDead THEN w
  ELSE IF w.ai.state = "idle"
    THEN IF ~w.mon.isMoving /\ wanderRoll THEN AI_wander(AI_setState(w, "wander")) ELSE w
  ELSE IF w.ai.state = "aggro"
    THEN IF w.ai.aggroTarget # None
           THEN AI_pursueTarget(w)
           ELSE AI_scheduleNextWander(AI_setState(w, "idle"))
  ELSE IF w.ai.state = "attack" /\ w.ai.aggroTarget # None
    THEN IF TargetPresent(w) /\ ~w.pl[w.ai.aggroTarget].isDead
           THEN IF w.pl[w.ai.aggroTarget].dist > w.mon.attackRange
                  THEN AI_pursueTarget(AI_setState(AI_stopAttacking(w), "aggro"))
                  ELSE w
           ELSE AI_loseAggroTarget(AI_stopAttacking(w))
  ELSE w

\* MonsterAI.activate(entityManager)
AI_activate(w) ==
  IF w.ai.isActive
    THEN w
    ELSE LET w1 == AI_startCheckingForPlayers([w EXCEPT !.ai.isActive = TRUE])
         IN IF ~w.mon.isAggressive THEN AI_scheduleNextWander(w1) ELSE w1

\* MonsterAI.deactivate()
AI_deactivate(w) ==
  [AI_clearAllTimers([w EXCEPT !.ai.isActive = FALSE])
     EXCEPT !.ai.aggroTarget = None, !.ai.state = "idle"]

\* MonsterAI.reset()
AI_reset(w) ==
  LET w1 == [AI_clearAllTimers(w) EXCEPT !.ai.state = "idle", !.ai.aggroTarget = None]
  IN AI_scheduleNextWander(IF w1.ai.isAggressive THEN AI_startCheckingForPlayers(w1) ELSE w1)

\* Monster.die()
Monster_die(w) ==
  IF w.mon.isDead
    THEN w
    ELSE LET w1 == [w EXCEPT !.mon.isDead = TRUE, !.mon.hp = 0]
         IN [AI_deactivate(Monster_stopMovement(w1)) EXCEPT !.tm.respawn = @ + 1]

\* Monster.takeDamage(damage, attackerId) without the aggro call on the attacker
Monster_takeDamage_noAggro(w, damage, attackerId) ==
  IF w.mon.isDead
    THEN w
    ELSE LET hp1 == Max(0, w.mon.hp - Max(1, damage))
             w1 == [Monster_stopMovement(w) EXCEPT !.mon.hp = hp1]
         IN IF hp1 <= 0 THEN Monster_die([w1 EXCEPT !.mon.isDead = TRUE]) ELSE w1

\* Monster.takeDamage(damage, attackerId): errors of the aggro call are caught
Monster_takeDamage(w, damage, attackerId) ==
  IF w.mon.isDead
    THEN w
    ELSE LET hp1 == Max(0, w.mon.hp - Max(1, damage))
             w1 == [Monster_stopMovement(w) EXCEPT !.mon.hp = hp1]
         IN IF hp1 <= 0
              THEN Monster_die([w1 EXCEPT !.mon.isDead = TRUE])
              ELSE [AI_setAggroTarget(w1, attackerId) EXCEPT !.threw = FALSE]

\* Monster.respawn()
Monster_respawn(w) ==
  AI_activate(AI_reset([w EXCEPT !.mon.hp = w.mon.maxHp, !.mon.isDead = FALSE]))

\* new Monster(id, data, scene) where no CombatSystem is installed (the
\* monster carries no combatStats and is damaged through takeDamage)
Monster_new(type) ==
  [ type |-> Monster_type(type), hp |-> MONSTER_MAX_HP, maxHp |-> MONSTER_MAX_HP,
    isDead |-> FALSE, isMoving |-> FALSE,
    isAggressive |-> TypeConfig(type).isAggressive,
    aggroRadius |-> TypeConfig(type).aggroRadius,
    attackRange |-> TypeConfig(type).attackRange,
    attackDamage |-> TypeConfig(type).attackDamage,
    aggroRange |-> MONSTER_AGGRO_RANGE ]

\* new MonsterAI(monster)
AI_new(m) ==
  [ isActive |-> FALSE, isAggressive |-> m.isAggressive,
    aggroRadius |-> OrElse(m.aggroRadius, AI_AGGRO_RADIUS),
    state |-> "idle", aggroTarget |-> None,
    wanderTimeout |-> "null", aggroTimeout |-> "null",
    checkPlayersInterval |-> "null", attackInterval |-> "null" ]

---------------------------------------------------------------------------
(* part_003, first class MonsterAI (lines 10-836): the earlier iteration of  *)
(* the controller. v = the AI's fields together with the monster and player *)
(* fields it reads and writes:                                              *)
(*   isActive, state, aggroTarget, wanderTimeout, checkPlayersInterval,     *)
(*   attackInterval (TRUE: the handle of a live timer), lastAttack          *)
(*   ("never", "recent": less than the attack interval ago, "old"),         *)
(*   returning (the returnInterval of loseAggroTarget is live), back (its   *)
(*   1000 ms timeout is pending), wanderMove (a moveToTarget interval of    *)
(*   wander is live), isDead, isMoving, attackRange, isAggressive,          *)
(*   aggroRadius (monster), plPresent, plDead, dist (the player P1),        *)
(*   in (the random draws and positions the running handler meets),         *)
(*   tick (what the last step, if an AI tick, started from).                *)

\* distances (hundredths) the first iteration distinguishes: in attack range,
\* between attackRange and 1.2 * attackRange, in pursuit, beyond 30 units
Distances1 == {50, 110, 500, 3500}

AI1_clearAllTimers(v) ==
  [v EXCEPT !.wanderTimeout = FALSE, !.checkPlayersInterval = FALSE, !.attackInterval = FALSE]

AI1_scheduleNextWander(v) ==
  IF ~v.isActive \/ v.isDead \/ v.state \in {"aggro", "attack"}
    THEN v
    ELSE [v EXCEPT !.wanderTimeout = TRUE]

\* the target as pursueTarget, performAttack and update look it up
AI1_targetValid(v) == v.aggroTarget # None /\ v.plPresent /\ ~v.plDead

RECURSIVE AI1_setState(_, _), AI1_startAttacking(_), AI1_performAttack(_), AI1_pursueTarget(_)

AI1_setState(v, state) ==
  LET v1 == [v EXCEPT !.state = state]
  IN IF v.state = state THEN v1
     ELSE IF state = "aggro" THEN [v1 EXCEPT !.wanderTimeout = FALSE]
     ELSE IF state = "attack" THEN AI1_startAttacking([v1 EXCEPT !.isMoving = FALSE])
     ELSE v1

\* loseAggroTarget(): in.far tells whether the monster is further than
\* 2 * wanderRadius from its spawn position
AI1_loseAggroTarget(v) ==
  IF v.aggroTarget = None
    THEN v
    ELSE LET v1 == AI1_setState([v EXCEPT !.aggroTarget = None, !.attackInterval = FALSE],
                                "idle")
         IN IF v.in.far
              THEN [v1 EXCEPT !.returning = TRUE]
              ELSE AI1_scheduleNextWander(AI1_setState(v1, "wandering"))

AI1_startAttacking(v) ==
  IF ~v.isActive \/ v.isDead \/ v.aggroTarget = None
    THEN v
    ELSE LET v1 == AI1_setState([v EXCEPT !.isMoving = FALSE], "attack")
             v2 == AI1_performAttack(AI1_clearAllTimers(v1))
         IN [v2 EXCEPT !.attackInterval = TRUE]

\* performAttack(): Monster.attackPlayer applies the damage, in.kills tells
\* whether it takes the player's last hit points
AI1_performAttack(v) ==
  IF v.aggroTarget = None \/ ~v.isActive \/ v.isDead
    THEN [v EXCEPT !.attackInterval = FALSE]
  ELSE IF v.lastAttack = "recent" THEN v
  ELSE IF ~AI1_targetValid(v) THEN v
  ELSE IF 100 * v.dist > v.attackRange * 120 THEN AI1_pursueTarget(v)
  ELSE [v EXCEPT !.lastAttack = "recent", !.plDead = v.in.kills]

\* pursueTarget(): in.step tells whether the step towards the player takes
\* the monster into the next nearer distance class
AI1_pursueTarget(v) ==
  IF ~v.isActive \/ v.isDead \/ v.aggroTarget = None THEN AI1_loseAggroTarget(v)
  ELSE IF ~AI1_targetValid(v) THEN AI1_loseAggroTarget(v)
  ELSE IF v.dist > 3000 THEN AI1_loseAggroTarget(v)
  ELSE IF 100 * v.dist <= v.attackRange * 120 THEN AI1_startAttacking(v)
  ELSE [v EXCEPT !.isMoving = TRUE,
                 !.dist = IF v.in.step
                            THEN CHOOSE c \in Distances1 :
                                   c < v.dist /\ \A e \in Distances1 : e < v.dist => e <= c
                            ELSE @]

\* setAggroTarget(playerId): attackIntervalId is assigned nowhere, so the
\* closing startAttacking() always runs
AI1_setAggroTarget(v, playerId) ==
  IF playerId = None \/ v.isDead
    THEN v
    ELSE LET v1 == AI1_setState([AI1_clearAllTimers(v) EXCEPT !.aggroTarget = playerId],
                                "aggro")
         IN AI1_startAttacking(AI1_pursueTarget(v1))

AI1_checkForPlayersInRange(v) ==
  IF ~v.isActive \/ v.isDead THEN v
  ELSE IF v.aggroTarget # None /\ v.state \in {"aggro", "attack"} THEN v
  ELSE IF ~v.isAggressive THEN v
  ELSE IF v.plPresent /\ ~v.plDead /\ v.dist <= v.aggroRadius
    THEN AI1_setAggroTarget(v, "P1")
  ELSE v

\* wander(): in.near tells whether the drawn point is the monster's position
AI1_wander(v) ==
  IF v.isDead \/ v.aggroTarget # None
    THEN v
    ELSE LET v1 == AI1_setState(v, "wandering")
         IN IF v.in.near THEN AI1_scheduleNextWander(v1) ELSE [v1 EXCEPT !.wanderMove = TRUE]

\* update(): in.roll is the wanderChance draw
AI1_update(v) ==
  IF ~v.isActive \/ v.isDead THEN v
  ELSE IF v.state = "idle"
    THEN IF ~v.isMoving /\ v.in.roll THEN AI1_wander(AI1_setState(v, "wander")) ELSE v
  ELSE IF v.state = "aggro"
    THEN IF v.aggroTarget # None
           THEN AI1_pursueTarget(v)
           ELSE AI1_scheduleNextWander(AI1_setState(v, "idle"))
  ELSE IF v.state = "attack" /\ v.aggroTarget # None
    THEN IF AI1_targetValid(v)
           THEN IF v.dist > v.attackRange
                  THEN AI1_pursueTarget(
                         AI1_setState([v EXCEPT !.attackInterval = FALSE], "aggro"))
                  ELSE v
           ELSE AI1_loseAggroTarget([v EXCEPT !.attackInterval = FALSE])
  ELSE v

AI1_activate(v) ==
  IF v.isActive
    THEN v
    ELSE LET v1 == [v EXCEPT !.isActive = TRUE, !.checkPlayersInterval = TRUE]
         IN IF ~v.isAggressive THEN AI1_scheduleNextWander(v1) ELSE v1

AI1_deactivate(v) ==
  [AI1_clearAllTimers(v) EXCEPT !.isActive = FALSE, !.aggroTarget = None, !.state = "idle"]

AI1_reset(v) ==
  LET v1 == [AI1_clearAllTimers(v) EXCEPT !.state = "idle", !.aggroTarget = None,
                                          !.lastAttack = "never"]
  IN AI1_scheduleNextWander(
       IF v.isAggressive THEN [v1 EXCEPT !.checkPlayersInterval = TRUE] ELSE v1)

\* new MonsterAI(monster) of the first iteration, for a monster of the type
AI1_new(type) ==
  [ isActive |-> FALSE, state |-> "idle", aggroTarget |-> None,
    wanderTimeout |-> FALSE, checkPlayersInterval |-> FALSE, attackInterval |-> FALSE,
    lastAttack |-> "never", returning |-> FALSE, back |-> FALSE, wanderMove |-> FALSE,
    isDead |-> FALSE, isMoving |-> FALSE,
    attackRange |-> TypeConfig(type).attackRange,
    isAggressive |-> TypeConfig(type).isAggressive,
    aggroRadius |-> OrElse(TypeConfig(type).aggroRadius, AI_AGGRO_RADIUS) ]

---------------------------------------------------------------------------
(* DamageCalculator.js: class StatusEffect. An effect object e has the       *)
(* configuration fields isStackable, maxStacks, duration (in ticks) and the  *)
(* state fields isActive, stacks, startTime, endTime, removalTimer (the time *)
(* its pending timeout is due, NoTimer when none is pending) and removes     *)
(* (runs of the onRemove hook since the effect was applied).                 *)

NoTimer == 0 - 1

\* new StatusEffect(config)
StatusEffect_new(config) ==
  [ isStackable |-> config.isStackable, maxStacks |-> OrElse(config.maxStacks, 1),
    duration |-> config.duration,
    isActive |-> FALSE, stacks |-> 1, startTime |-> 0, endTime |-> 0,
    removalTimer |-> NoTimer, removes |-> 0 ]

\* _scheduleRemoval(): the timeout runs for the whole duration from now on
StatusEffect_scheduleRemoval(e, time) ==
  IF e.duration <= 0 THEN e ELSE [e EXCEPT !.removalTimer = time + e.duration]

\* apply(target, source, options) with no stacks option
StatusEffect_apply(e, time) ==
  LET e1 == [e EXCEPT !.startTime = time,
                      !.endTime = IF e.duration > 0 THEN time + e.duration ELSE 0,
                      !.stacks = 1, !.isActive = TRUE, !.removes = 0]
  IN IF e.duration > 0 THEN StatusEffect_scheduleRemoval(e1, time) ELSE e1

\* remove() without its "not active" early return
StatusEffect_remove_noGuard(e) ==
  [e EXCEPT !.removalTimer = NoTimer, !.removes = @ + 1, !.isActive = FALSE]

\* remove(): clears the timers, runs the onRemove hook
StatusEffect_remove(e) ==
  IF ~e.isActive
    THEN e
    ELSE [e EXCEPT !.removalTimer = NoTimer, !.removes = @ + 1, !.isActive = FALSE]

\* addStacks(amount)
StatusEffect_addStacks(e, amount) ==
  IF ~e.isStackable \/ ~e.isActive
    THEN e
    ELSE [e EXCEPT !.stacks = Min(e.maxStacks, e.stacks + amount)]

\* removeStacks(amount)
StatusEffect_removeStacks(e, amount) ==
  IF ~e.isStackable \/ ~e.isActive
    THEN e
    ELSE LET e1 == [e EXCEPT !.stacks = Max(0, e.stacks - amount)]
         IN IF e1.stacks = 0 THEN StatusEffect_remove(e1) ELSE e1

\* extendDuration(additionalDuration)
StatusEffect_extendDuration(e, additionalDuration, time) ==
  IF ~e.isActive \/ e.duration = 0
    THEN e
    ELSE StatusEffect_scheduleRemoval(
           [e EXCEPT !.endTime = @ + additionalDuration, !.removalTimer = NoTimer], time)

\* refreshDuration()
StatusEffect_refreshDuration(e, time) ==
  IF ~e.isActive \/ e.duration = 0
    THEN e
    ELSE StatusEffect_scheduleRemoval(
           [e EXCEPT !.startTime = time, !.endTime = time + e.duration,
                     !.removalTimer = NoTimer], time)

\* isExpired()
StatusEffect_isExpired(e, time) == e.duration > 0 /\ time > e.endTime

(* class StatusEffectManager, for one effect id: m = [held, e] tells whether *)
(* the effects map has an entry for the id, and the effect object it holds. *)
(* The operations return the manager and the notifications they fired.      *)

\* applyEffect(effect, source, options); incoming is the object passed in
StatusEffectManager_applyEffect(m, incoming, time) ==
  IF m.held
    THEN [ m |-> IF m.e.isStackable
                   THEN [m EXCEPT !.e = StatusEffect_addStacks(@, OrElse(incoming.stacks, 1))]
                   ELSE [m EXCEPT !.e = StatusEffect_refreshDuration(@, time)],
           notified |-> {"updated"} ]
    ELSE [ m |-> [held |-> TRUE, e |-> StatusEffect_apply(incoming, time)],
           notified |-> {"added"} ]

\* removeEffect(effectId)
StatusEffectManager_removeEffect(m) ==
  IF ~m.held
    THEN [m |-> m, notified |-> {}]
    ELSE [m |-> [held |-> FALSE, e |-> StatusEffect_remove(m.e)], notified |-> {"removed"}]

\* update(deltaTime): the sweep of the expired effects
StatusEffectManager_update(m, time) ==
  IF m.held /\ StatusEffect_isExpired(m.e, time)
    THEN [m |-> [held |-> FALSE, e |-> StatusEffect_remove(m.e)], notified |-> {"removed"}]
    ELSE [m |-> m, notified |-> {}]

---------------------------------------------------------------------------
(* SpecStats: one stat block, its public methods called in any order *)

NoRet == [op |-> "none", value |-> 0, targetDied |-> FALSE, fired |-> {}]

\* the other subsystems are not running
StatsUnused == cs = <<>> /\ csDeaths = 0 /\ csRet = NoRet
CombatUnused ==
  /\ stats = <<>> /\ entities = <<>> /\ wired = <<>> /\ now = 0
  /\ lastSuccessAt = <<>> /\ aiAggro = <<>> /\ sysRet = NoRet
MonsterUnused == mon = <<>> /\ ai = <<>> /\ tm = <<>> /\ pl = <<>> /\ monRet = NoRet
ValidateUnused == va = <<>>
Ai1Unused == ai1 = <<>>
EffectUnused == fx = <<>> /\ fxNow = 0 /\ fxRet = <<>>
ListenerUnused == ln = <<>> /\ lnRet = <<>>
ClientUnused == im = <<>> /\ reg = <<>> /\ ent = <<>> /\ duel = <<>>
ExtUnused == ValidateUnused /\ Ai1Unused /\ EffectUnused /\ ListenerUnused /\ ClientUnused

InitStats ==
  /\ \E maxHp \in 1 .. MaxMaxHp, hp \in 0 .. MaxMaxHp,
        defense \in DefenseValues, r \in ResistValues :
       /\ hp <= maxHp
       /\ cs = CombatStats_new([level |-> 1, maxHp |-> maxHp, hp |-> hp, attack |-> 0,
                                defense |-> defense, attackCooldown |-> 0,
                                attackRange |-> 0,
                                resist |-> [t \in DamageTypes |->
                                              IF t = "magical" THEN r ELSE 0]])
  /\ csDeaths = 0
  /\ csRet = NoRet
  /\ CombatUnused
  /\ MonsterUnused
  /\ ExtUnused

StatsApplyDamage ==
  \E amount \in DamageAmounts, type \in DamageTypes :
    LET r == CombatStats_applyDamage(cs, amount, type)
    IN /\ cs' = r.stats
       /\ csDeaths' = csDeaths + (IF r.deathFired THEN 1 ELSE 0)
       /\ csRet' = [op |-> "applyDamage", value |-> r.damage, targetDied |-> r.targetDied,
                    fired |-> (IF r.damageFired THEN {"damage"} ELSE {})
                              \cup (IF r.deathFired THEN {"death"} ELSE {})]
       /\ UNCHANGED <<combatVars, monsterVars, extVars>>

StatsHeal ==
  \E amount \in HealAmounts :
    LET r == CombatStats_heal(cs, amount)
    IN /\ r.stats.hp >= 0 - MaxAmount     \* keeps the model finite
       /\ cs' = r.stats
       /\ csDeaths' = csDeaths
       /\ csRet' = [op |-> "heal", value |-> r.healed, targetDied |-> FALSE,
                    fired |-> IF r.healFired THEN {"heal"} ELSE {}]
       /\ UNCHANGED <<combatVars, monsterVars, extVars>>

StatsDie ==
  LET r == CombatStats_die(cs)
  IN /\ cs' = r.stats
     /\ csDeaths' = csDeaths + (IF r.deathFired THEN 1 ELSE 0)
     /\ csRet' = [op |-> "die", value |-> 0, targetDied |-> FALSE,
                  fired |-> IF r.deathFired THEN {"death"} ELSE {}]
     /\ UNCHANGED <<combatVars, monsterVars, extVars>>

StatsRevive ==
  \E pct \in RevivePercents :
    LET r == CombatStats_revive(cs, pct)
    IN /\ cs' = r.stats
       /\ csDeaths' = IF r.reviveFired THEN 0 ELSE csDeaths
       /\ csRet' = [op |-> "revive", value |-> 0, targetDied |-> FALSE,
                    fired |-> IF r.reviveFired THEN {"revive"} ELSE {}]
       /\ UNCHANGED <<combatVars, monsterVars, extVars>>

NextStats == StatsApplyDamage \/ StatsHeal \/ StatsDie \/ StatsRevive

SpecStats == InitStats /\ [][NextStats]_vars

---------------------------------------------------------------------------
(* SpecCombat: three entities attacked through the CombatSystem API *)

SysNoRet == [op |-> "none", attacker |-> None, target |-> None, success |-> FALSE,
             message |-> "", targetDied |-> FALSE, damageFired |-> FALSE,
             hpChanged |-> FALSE, early |-> FALSE]

\* the entities are given as many hit points as the base attack, so that two
\* plain hits or one critical hit kill
SysMaxHp == BASE_ATTACK

\* the clock starts late enough for a first attack: lastAttackTime starts at 0
StartTime == 2 * DEFAULT_ATTACK_COOLDOWN
TickMs == DEFAULT_ATTACK_COOLDOWN \div 2

InitCombat ==
  /\ stats = [id \in EntityIds |->
                CombatStats_new([level |-> 1, maxHp |-> SysMaxHp, hp |-> 0, attack |-> 0,
                                 defense |-> 0, attackCooldown |-> 0, attackRange |-> 0,
                                 resist |-> [t \in DamageTypes |-> 0]])]
  /\ entities = <<>>
  /\ wired = [id \in EntityIds |-> 0]
  /\ now = StartTime
  /\ lastSuccessAt = [id \in EntityIds |-> 0 - 1]
  /\ aiAggro = [id \in MonsterIds |-> None]
  /\ sysRet = SysNoRet
  /\ StatsUnused
  /\ MonsterUnused
  /\ ExtUnused

\* the stat block's listeners as wired by setupEntity: on death the death
\* handler runs first, then the damage handler
SysAfterDamage(sys, st, t, attackerId, r) ==
  [ entities |-> IF r.deathFired /\ sys.wired[t] > 0
                   THEN CombatSystem_handleEntityDeath(sys.entities, t)
                   ELSE sys.entities,
    aggro |-> IF r.damageFired /\ sys.wired[t] > 0
                THEN CombatSystem_handleEntityDamaged(aiAggro, st, t, attackerId)
                ELSE aiAggro ]

\* processAttack(attacker, target, options)
SysProcessAttack ==
  \E a \in EntityIds, t \in EntityIds, ignoreRange \in BOOLEAN, roll \in Rolls :
    LET sys == CombatSystem_setupEntity(
                 CombatSystem_setupEntity([entities |-> entities, wired |-> wired], a), t)
        reason == DamageCalculator_validateAttack(stats, a, t, now,
                                                  [NoOptions EXCEPT !.ignoreRange = ignoreRange])
        early == lastSuccessAt[a] >= 0 /\ now - lastSuccessAt[a] < stats[a].attackCooldown
        fail(msg) ==
          /\ sysRet' = [op |-> "processAttack", attacker |-> a, target |-> t,
                        success |-> FALSE, message |-> msg, targetDied |-> FALSE,
                        damageFired |-> FALSE, hpChanged |-> FALSE, early |-> early]
          /\ entities' = sys.entities
          /\ wired' = sys.wired
          /\ UNCHANGED <<stats, lastSuccessAt, aiAggro>>
    IN /\ a # t
       /\ IF reason # "valid" THEN fail(reason)
          ELSE IF ~CombatStats_canAttack(stats[a], now) THEN fail("Ainda em cooldown de ataque")
          ELSE
            LET st1 == [stats EXCEPT ![a] = CombatStats_registerAttack(@, now)]
                dmg == DamageCalculator_calculateBasicAttackDamage(st1[a], roll[1], roll[2])
                r == CombatStats_applyDamage(st1[t], dmg.damage, dmg.type)
                st2 == [st1 EXCEPT ![t] = r.stats]
                h == SysAfterDamage(sys, st2, t, a, r)
            IN /\ stats' = st2
               /\ entities' = [h.entities EXCEPT ![a] = @ \cup {t}]
               /\ wired' = sys.wired
               /\ aiAggro' = h.aggro
               /\ lastSuccessAt' = [lastSuccessAt EXCEPT ![a] = now]
               /\ sysRet' = [op |-> "processAttack", attacker |-> a, target |-> t,
                             success |-> TRUE, message |-> "", targetDied |-> r.targetDied,
                             damageFired |-> r.damageFired,
                             hpChanged |-> \E id \in EntityIds : st2[id].hp # stats[id].hp,
                             early |-> early]
       /\ UNCHANGED <<now, statsVars, monsterVars, extVars>>

\* applyDamage(target, amount, type, sourceId, options)
SysApplyDamage ==
  \E t \in EntityIds, amount \in SysDamageAmounts, type \in {"physical"},
     sourceId \in {"p1", None} :
    LET sys == CombatSystem_setupEntity([entities |-> entities, wired |-> wired], t)
        r == CombatStats_applyDamage(stats[t], amount, type)
        st2 == [stats EXCEPT ![t] = r.stats]
        h == SysAfterDamage(sys, st2, t, sourceId, r)
    IN /\ sourceId # t
       /\ stats' = st2
       /\ entities' = h.entities
       /\ wired' = sys.wired
       /\ aiAggro' = h.aggro
       /\ sysRet' = [op |-> "applyDamage", attacker |-> sourceId, target |-> t,
                     success |-> TRUE, message |-> "", targetDied |-> r.targetDied,
                     damageFired |-> r.damageFired,
                     hpChanged |-> st2[t].hp # stats[t].hp, early |-> FALSE]
       /\ UNCHANGED <<now, lastSuccessAt, statsVars, monsterVars, extVars>>

\* time passes between calls
SysTick ==
  /\ now < StartTime + MaxTicks * TickMs
  /\ now' = now + TickMs
  /\ UNCHANGED <<stats, entities, wired, lastSuccessAt, aiAggro, sysRet, statsVars, monsterVars, extVars>>

NextCombat == SysProcessAttack \/ SysApplyDamage \/ SysTick

SpecCombat == InitCombat /\ [][NextCombat]_vars

---------------------------------------------------------------------------
(* SpecMonster: one monster with its AI, the players, the timers and the    *)
(* network events of game.js                                                *)

MonNoRet == [op |-> "none", who |-> None, pre |-> "", twice |-> FALSE]

InitMonster ==
  /\ \E type \in MonsterTypes :
       /\ mon = Monster_new(type)
       /\ ai = AI_new(Monster_new(type))
  /\ tm = [orphanAggro |-> 0, pursue |-> 0, respawn |-> 0, activate |-> TRUE]
  /\ pl \in [PlayerIds -> [present : {TRUE}, hp : {PlayerMaxHp}, isDead : {FALSE},
                           dist : Distances]]
  /\ monRet = MonNoRet
  /\ StatsUnused
  /\ CombatUnused
  /\ ExtUnused

\* 0.8 + Math.random() * 0.4 for the attacks of one handler run, in hundredths
Draws == {<<80, 120>>, <<120, 80>>}

\* the world a handler starts in
World(rnd, step) ==
  [mon |-> mon, ai |-> ai, tm |-> tm, pl |-> pl, threw |-> FALSE, rnd |-> rnd, step |-> step,
   attacks |-> 0]

\* the pending timers stay within the bounds of the model
Bounded(w) ==
  /\ w.tm.orphanAggro <= MaxOrphans
  /\ w.tm.pursue <= MaxPursue
  /\ w.tm.respawn <= MaxRespawn

\* the handler has run to its end (or to an uncaught error)
Commit(w, ret) ==
  /\ mon' = w.mon /\ ai' = w.ai /\ tm' = w.tm /\ pl' = w.pl
  /\ monRet' = [ret EXCEPT !.twice = w.attacks >= 2]
  /\ UNCHANGED <<statsVars, combatVars, extVars>>

\* a player hits the monster: EntityManager.damageMonster -> Monster.takeDamage
MonTakeDamage ==
  \E p \in PlayerIds, damage \in HitAmounts, rnd \in Draws, step \in BOOLEAN :
    LET w == Monster_takeDamage(World(rnd, step), damage, p)
    IN /\ pl[p].present
       /\ Bounded(w)
       /\ Commit(w, [op |-> "takeDamage", who |-> p,
                     pre |-> IF mon.isDead THEN "dead"
                             ELSE IF ai.state # "idle" \/ mon.isAggressive THEN "other"
                             ELSE IF ai.isActive THEN "idle" ELSE "idle-inactive",
                     twice |-> FALSE])

\* 'monsterDied' event: EntityManager.killMonster -> Monster.die
NetMonsterDied ==
  LET w == Monster_die(World(<<>>, FALSE))
  IN /\ Bounded(w)
     /\ Commit(w, MonNoRet)

\* the 'monsterDamaged' event handler of game.js run on {hp, attackerId}
Game_onMonsterDamaged(w0, hp, attackerId) ==
  LET w1 == IF w0.mon.isMoving THEN Monster_stopMovement(w0) ELSE w0
      w2 == IF w1.mon.hp # hp
              THEN [w1 EXCEPT !.mon.hp = hp, !.mon.isDead = (hp <= 0)]
              ELSE w1
      a == AI_setAggroTarget(w2, attackerId)
      w3 == IF attackerId = None THEN w2
            ELSE IF a.threw THEN a
            ELSE [AI_setState(a, "aggro") EXCEPT !.tm.pursue = @ + 1]
  IN IF ~w3.threw /\ hp <= 0 /\ ~w3.mon.isDead THEN Monster_die(w3) ELSE w3

\* 'monsterDamaged' event of the network manager
NetMonsterDamaged ==
  \E hp \in ServerHps, attackerId \in PlayerIds \cup {None}, rnd \in Draws, step \in BOOLEAN :
    LET w4 == Game_onMonsterDamaged(World(rnd, step), hp, attackerId)
    IN /\ Bounded(w4)
       /\ Commit(w4, MonNoRet)

\* 'monsterRespawn' event: EntityManager.respawnMonster -> Monster.respawn
NetMonsterRespawn ==
  LET w == Monster_respawn(World(<<>>, FALSE))
  IN /\ Bounded(w)
     /\ Commit(w, MonNoRet)

\* the respawn timeout set by Monster.die fires
TimerRespawn ==
  /\ tm.respawn > 0
  /\ Commit(Monster_respawn([World(<<>>, FALSE) EXCEPT !.tm.respawn = @ - 1]),
            MonNoRet)

\* the activation timeout set by the Monster constructor fires
TimerActivate ==
  /\ tm.activate
  /\ Commit(AI_activate([World(<<>>, FALSE) EXCEPT !.tm.activate = FALSE]),
            MonNoRet)

\* the wander timeout fires (callback of scheduleNextWander)
TimerWander ==
  /\ ai.wanderTimeout = "pending"
  /\ LET w0 == [World(<<>>, FALSE) EXCEPT !.ai.wanderTimeout = "null"]
         w1 == IF w0.ai.state \notin {"aggro", "attack"}
                 THEN AI_wander(AI_setState(w0, "wander")) ELSE w0
     IN Commit(AI_scheduleNextWander(w1), MonNoRet)

\* callback of the timeout set by loseAggroTarget
AggroLostCallback(w) ==
  AI_scheduleNextWander(AI_setState([w EXCEPT !.ai.aggroTarget = None], "idle"))

\* the aggro-loss timeout the aggroTimeout handle refers to fires
TimerAggroLost ==
  /\ ai.aggroTimeout = "pending"
  /\ Commit(AggroLostCallback([World(<<>>, FALSE) EXCEPT !.ai.aggroTimeout = "null"]),
            MonNoRet)

\* an aggro-loss timeout whose handle was overwritten fires
TimerOrphanAggroLost ==
  /\ tm.orphanAggro > 0
  /\ Commit(AggroLostCallback([World(<<>>, FALSE) EXCEPT !.tm.orphanAggro = @ - 1]),
            MonNoRet)

\* the player-scan interval fires
TimerCheckPlayers ==
  \E rnd \in Draws, step \in BOOLEAN :
    LET w == AI_checkForPlayersInRange(World(rnd, step))
    IN /\ ai.checkPlayersInterval = "running"
       /\ Bounded(w)
       /\ Commit(w, MonNoRet)

\* the attack interval fires
TimerAttack ==
  \E rnd \in Draws, step \in BOOLEAN :
    LET w == AI_performAttack(World(rnd, step))
    IN /\ ai.attackInterval = "running"
       /\ Bounded(w)
       /\ Commit(w, MonNoRet)

\* the delayed pursueTarget of the monsterDamaged handler fires
TimerPursue ==
  \E rnd \in Draws, step \in BOOLEAN :
    /\ tm.pursue > 0
    /\ LET w0 == [World(rnd, step) EXCEPT !.tm.pursue = @ - 1]
           w == IF ~w0.mon.isDead THEN AI_pursueTarget(w0) ELSE w0
       IN /\ Bounded(w)
          /\ Commit(w, MonNoRet)

\* what an AI tick starts from, as far as the aggro rules are concerned:
\* the target of an aggro AI is missing or dead, the target of an aggro AI
\* is within attack range, the target of an attacking AI is beyond it
TickPre ==
  IF ~ai.isActive \/ mon.isDead \/ ai.aggroTarget = None \/ ai.state \notin {"aggro", "attack"}
    THEN ""
  ELSE IF ~pl[ai.aggroTarget].present \/ pl[ai.aggroTarget].isDead
    THEN IF ai.state = "aggro" THEN "aggro-lost" ELSE ""
  ELSE IF ai.state = "aggro"
    THEN IF pl[ai.aggroTarget].dist <= mon.attackRange THEN "aggro-in" ELSE ""
  ELSE IF pl[ai.aggroTarget].dist > mon.attackRange THEN "attack-out" ELSE ""

\* one frame: Monster.update -> updateMovement (the monster may arrive), AI update
MonUpdate ==
  \E rnd \in Draws, step \in BOOLEAN, arrived \in BOOLEAN, wanderRoll \in BOOLEAN :
    /\ ~mon.isDead
    /\ arrived => mon.isMoving
    /\ wanderRoll => ai.state = "idle"
    /\ LET w0 == World(rnd, step)
           w1 == IF arrived THEN Monster_stopMovement(w0) ELSE w0
           w == AI_update(w1, wanderRoll)
       IN /\ Bounded(w)
          /\ Commit(w, IF TickPre = "" THEN MonNoRet
                       ELSE [op |-> "update", who |-> ai.aggroTarget, pre |-> TickPre,
                             twice |-> FALSE])

\* a player walks
PlayerMove ==
  \E p \in PlayerIds, d \in Distances :
    /\ pl[p].present /\ ~pl[p].isDead /\ pl[p].dist # d
    /\ pl' = [pl EXCEPT ![p].dist = d]
    /\ monRet' = MonNoRet
    /\ UNCHANGED <<mon, ai, tm, statsVars, combatVars, extVars>>

\* EntityManager.removePlayer
PlayerLeave ==
  \E p \in PlayerIds :
    /\ pl[p].present
    /\ pl' = [pl EXCEPT ![p].present = FALSE]
    /\ monRet' = MonNoRet
    /\ UNCHANGED <<mon, ai, tm, statsVars, combatVars, extVars>>

\* the respawn timeout set by Player.die fires: Player.respawn
PlayerRespawn ==
  \E p \in PlayerIds, d \in Distances :
    /\ pl[p].present /\ pl[p].isDead
    /\ pl' = [pl EXCEPT ![p].isDead = FALSE, ![p].hp = PlayerMaxHp, ![p].dist = d]
    /\ monRet' = MonNoRet
    /\ UNCHANGED <<mon, ai, tm, statsVars, combatVars, extVars>>

NextMonster ==
  \/ MonTakeDamage \/ NetMonsterDied \/ NetMonsterDamaged \/ NetMonsterRespawn
  \/ TimerRespawn \/ TimerActivate \/ TimerWander \/ TimerAggroLost
  \/ TimerOrphanAggroLost \/ TimerCheckPlayers \/ TimerAttack \/ TimerPursue
  \/ MonUpdate \/ PlayerMove \/ PlayerLeave \/ PlayerRespawn

SpecMonster == InitMonster /\ [][NextMonster]_vars

---------------------------------------------------------------------------
(* SpecValidate: DamageCalculator.validateAttack applied to drawn arguments *)

CoreUnused == StatsUnused /\ CombatUnused /\ MonsterUnused

\* stat blocks an entity can carry: alive or dead, ready or still cooling
\* down at StartTime, reaching the other monster or not
StatVariants ==
  { [CombatStats_new([level |-> 1, maxHp |-> 0, hp |-> 0, attack |-> 0, defense |-> 0,
                      attackCooldown |-> 0, attackRange |-> r,
                      resist |-> [d \in DamageTypes |-> 0]])
       EXCEPT !.isDead = dead, !.lastAttackTime = last, !.hp = IF dead THEN 0 ELSE @]
    : dead \in BOOLEAN, last \in {0, StartTime - TickMs}, r \in {0, 10} }

\* the entities that carry combatStats, with their stat block
StatMaps == UNION { [S -> StatVariants] : S \in SUBSET {"m1", "p1"} }

ValidateOptions ==
  [canTargetDead : BOOLEAN, ignoreRange : BOOLEAN, range : {0, 10, 30}]

ValidateArgs ==
  [a : {None, "m1", "p1"}, t : {None, "m2", "m1"}, st : StatMaps, options : ValidateOptions]

\* the arguments of the call are drawn; nothing has been called yet
InitValidate ==
  /\ Ai1Unused
  /\ EffectUnused
  /\ ListenerUnused
  /\ ClientUnused
  /\ \E in \in ValidateArgs :
       va = [called |-> FALSE, a |-> in.a, t |-> in.t, st |-> in.st,
             options |-> in.options, reason |-> ""]
  /\ CoreUnused

\* validateAttack(attacker, target, options) at Date.now() = StartTime
Validate ==
  /\ ~va.called
  /\ va' = [va EXCEPT !.called = TRUE,
                      !.reason = DamageCalculator_validateAttack(va.st, va.a, va.t, StartTime,
                                                                 va.options)]
  /\ UNCHANGED <<statsVars, combatVars, monsterVars, ai1Vars, effectVars, listenerVars, clientVars>>

NextValidate == Validate

SpecValidate == InitValidate /\ [][NextValidate]_vars

---------------------------------------------------------------------------
(* SpecAttack: CombatSystem.processAttack applied to drawn arguments *)

VaOthers == <<statsVars, combatVars, monsterVars, ai1Vars, effectVars, listenerVars, clientVars>>

\* the arguments of the call are drawn; nothing has been called yet
InitAttack ==
  /\ \E in \in ValidateArgs :
       va = [called |-> FALSE, a |-> in.a, t |-> in.t, st |-> in.st,
             options |-> in.options, reason |-> "", out |-> <<>>]
  /\ CoreUnused
  /\ Ai1Unused
  /\ EffectUnused
  /\ ListenerUnused
  /\ ClientUnused

\* processAttack(attacker, target, options) at Date.now() = StartTime
ProcessAttack ==
  \E roll \in Rolls :
    /\ ~va.called
    /\ va' = [va EXCEPT !.called = TRUE,
                        !.out = CombatSystem_processAttack(va.st, va.a, va.t, StartTime,
                                                           va.options, roll)]
    /\ UNCHANGED VaOthers

NextAttack == ProcessAttack

SpecAttack == InitAttack /\ [][NextAttack]_vars

---------------------------------------------------------------------------
(* SpecSkill: CombatSystem.processSkillUse applied to drawn arguments *)

\* Math.random() outcomes of one skill use: <<0.95 + random * 0.1 in
\* hundredths, whether the critical roll succeeded>>
SkillRolls == {<<95, FALSE>>, <<105, TRUE>>}

\* the skills used: the validation options of ValidateOptions are the skill's
Skills ==
  [mpCost : {0, 10}, baseDamage : {0, 30}, effects : BOOLEAN, range : {0, 10},
   ignoreRange : BOOLEAN, canTargetDead : BOOLEAN]

\* the arguments of the call are drawn; nothing has been called yet
InitSkill ==
  /\ \E a \in {None, "m1"}, t \in {None, "m2", "m1"}, st \in StatMaps, skill \in Skills,
        mp \in {5, BASE_MP} :
       /\ (a \notin DOMAIN st) => mp = BASE_MP
       /\ va = [called |-> FALSE, a |-> a, t |-> t, st |-> st,
                options |-> [range |-> skill.range, ignoreRange |-> skill.ignoreRange,
                             canTargetDead |-> skill.canTargetDead],
                reason |-> "", mp |-> mp, skill |-> skill, out |-> <<>>]
  /\ CoreUnused
  /\ Ai1Unused
  /\ EffectUnused
  /\ ListenerUnused
  /\ ClientUnused

\* processSkillUse(attacker, target, skill) at Date.now() = StartTime
ProcessSkillUse ==
  \E roll \in SkillRolls :
    /\ ~va.called
    /\ va' = [va EXCEPT !.called = TRUE,
                        !.out = CombatSystem_processSkillUse(va.st, va.mp, va.a, va.t,
                                                             StartTime, va.skill, roll)]
    /\ UNCHANGED VaOthers

NextSkill == ProcessSkillUse

SpecSkill == InitSkill /\ [][NextSkill]_vars

---------------------------------------------------------------------------
(* SpecDamage: calculateBasicAttackDamage applied to drawn arguments *)

MaxAttack == 12
\* 0.9 + Math.random() * 0.2, in hundredths
DamageFactors == {90, 100, 109}
\* options.damageMultiplier in tenths, 0 when the option is absent
DamageMultipliers == {0, 5, 20}

\* the attacker's attack, the random outcomes and the option are drawn
InitDamage ==
  /\ \E attack \in 0 .. MaxAttack, factor \in DamageFactors, crit \in BOOLEAN,
        multiplier \in DamageMultipliers :
       va = [called |-> FALSE, attack |-> attack, factor |-> factor, crit |-> crit,
             multiplier |-> multiplier, damage |-> 0]
  /\ CoreUnused
  /\ Ai1Unused
  /\ EffectUnused
  /\ ListenerUnused
  /\ ClientUnused

\* calculateBasicAttackDamage(attacker, target, options)
CalculateDamage ==
  /\ ~va.called
  /\ va' = [va EXCEPT !.called = TRUE,
                      !.damage = DamageCalculator_calculateBasicAttackDamageOpt(
                                   va.attack, va.factor, va.crit, va.multiplier)]
  /\ UNCHANGED VaOthers

NextDamage == CalculateDamage

SpecDamage == InitDamage /\ [][NextDamage]_vars

---------------------------------------------------------------------------
(* SpecAi1: one MonsterAI of the first iteration, its timers, its monster   *)
(* and one player                                                           *)

NoIn1 == [far |-> FALSE, step |-> FALSE, near |-> FALSE, kills |-> FALSE, roll |-> FALSE]
\* what a handler that may pursue and attack can meet
PursuitIns == {[NoIn1 EXCEPT !.far = f, !.step = st, !.kills = k] :
                 f \in BOOLEAN, st \in BOOLEAN, k \in BOOLEAN}
\* what a handler that may start a wander can meet
WanderIns == {[NoIn1 EXCEPT !.near = n] : n \in BOOLEAN}

InitAi1 ==
  /\ \E type \in MonsterTypes, d \in Distances1 :
       ai1 = AI1_new(type) @@ [plPresent |-> TRUE, plDead |-> FALSE, dist |-> d, in |-> NoIn1,
                                  tick |-> ""]
  /\ CoreUnused
  /\ ValidateUnused
  /\ EffectUnused
  /\ ListenerUnused
  /\ ClientUnused

\* the handler has run to its end
Commit1(v) ==
  /\ ai1' = [v EXCEPT !.in = NoIn1, !.tick = ""]
  /\ UNCHANGED <<statsVars, combatVars, monsterVars, validateVars, effectVars, listenerVars, clientVars>>

\* the activation timeout of the Monster constructor: ai.activate()
Ai1Activate ==
  /\ ~ai1.isActive /\ ~ai1.isDead
  /\ Commit1(AI1_activate(ai1))

\* Monster.takeDamage / the 'monsterDamaged' handler: ai.setAggroTarget(P1)
Ai1SetAggroTarget ==
  \E in \in PursuitIns :
    /\ ~ai1.isDead
    /\ Commit1(AI1_setAggroTarget([ai1 EXCEPT !.in = in], "P1"))

\* what a tick of the first iteration starts from: the target of an aggro AI
\* is within attack range, the target of an attacking AI is beyond it
Tick1Pre ==
  IF ~ai1.isActive \/ ai1.isDead \/ ~AI1_targetValid(ai1) THEN ""
  ELSE IF ai1.state = "aggro" /\ ai1.dist <= ai1.attackRange THEN "aggro-in"
  ELSE IF ai1.state = "attack" /\ ai1.dist > ai1.attackRange THEN "attack-out"
  ELSE ""

\* one frame: Monster.update -> ai.update()
Ai1Update ==
  \E in \in PursuitIns \cup WanderIns \cup {[NoIn1 EXCEPT !.roll = TRUE, !.near = n] :
                                              n \in BOOLEAN} :
    /\ ~ai1.isDead
    /\ (in.roll \/ in.near) => ai1.state = "idle"
    /\ (in.far \/ in.step \/ in.kills) => ai1.state \in {"aggro", "attack"}
    /\ ai1' = [AI1_update([ai1 EXCEPT !.in = in]) EXCEPT !.in = NoIn1, !.tick = Tick1Pre]
    /\ UNCHANGED <<statsVars, combatVars, monsterVars, validateVars, effectVars, listenerVars, clientVars>>

\* the wander timeout fires (callback of scheduleNextWander)
Ai1TimerWander ==
  \E in \in WanderIns :
    /\ ai1.wanderTimeout
    /\ LET v0 == [ai1 EXCEPT !.wanderTimeout = FALSE, !.in = in]
           v1 == IF v0.state \notin {"aggro", "attack"}
                   THEN AI1_wander(AI1_setState(v0, "wander")) ELSE v0
       IN Commit1(AI1_scheduleNextWander(v1))

\* the player-scan interval fires
Ai1TimerCheckPlayers ==
  \E in \in PursuitIns :
    /\ ai1.checkPlayersInterval
    /\ Commit1(AI1_checkForPlayersInRange([ai1 EXCEPT !.in = in]))

\* the attack interval fires (callback set by startAttacking)
Ai1TimerAttack ==
  \E in \in PursuitIns :
    /\ ai1.attackInterval
    /\ LET v0 == [ai1 EXCEPT !.in = in]
       IN Commit1(IF v0.isDead \/ v0.aggroTarget = None
                    THEN [v0 EXCEPT !.attackInterval = FALSE]
                    ELSE AI1_performAttack(v0))

\* the returnInterval of loseAggroTarget fires; the monster may have arrived
Ai1TimerReturn ==
  \E arrived \in BOOLEAN :
    /\ ai1.returning
    /\ Commit1(IF ai1.isDead \/ ai1.aggroTarget # None
                 THEN [ai1 EXCEPT !.returning = FALSE]
               ELSE IF arrived
                 THEN [ai1 EXCEPT !.returning = FALSE, !.isMoving = FALSE, !.back = TRUE]
               ELSE ai1)

\* the 1000 ms timeout set on arrival at the spawn position fires
Ai1TimerBack ==
  /\ ai1.back
  /\ Commit1(AI1_scheduleNextWander(AI1_setState([ai1 EXCEPT !.back = FALSE], "wandering")))

\* the moveToTarget interval of wander fires; the monster may have arrived
Ai1TimerWanderMove ==
  \E arrived \in BOOLEAN :
    /\ ai1.wanderMove
    /\ Commit1(IF ai1.isDead \/ ai1.aggroTarget # None
                 THEN ai1
               ELSE IF arrived
                 THEN AI1_scheduleNextWander([ai1 EXCEPT !.wanderMove = FALSE,
                                                         !.isMoving = FALSE])
               ELSE [ai1 EXCEPT !.isMoving = TRUE])

\* Monster.die(): stops the movement and deactivates the AI
Ai1MonsterDie ==
  /\ ~ai1.isDead
  /\ Commit1(AI1_deactivate([ai1 EXCEPT !.isDead = TRUE, !.isMoving = FALSE]))

\* Monster.respawn(): resets and activates the AI
Ai1MonsterRespawn ==
  /\ ai1.isDead
  /\ Commit1(AI1_activate(AI1_reset([ai1 EXCEPT !.isDead = FALSE])))

\* the player walks
Ai1PlayerMove ==
  \E d \in Distances1 :
    /\ ai1.plPresent /\ ~ai1.plDead /\ ai1.dist # d
    /\ Commit1([ai1 EXCEPT !.dist = d])

\* EntityManager.removePlayer
Ai1PlayerLeave ==
  /\ ai1.plPresent
  /\ Commit1([ai1 EXCEPT !.plPresent = FALSE])

\* Player.respawn
Ai1PlayerRespawn ==
  \E d \in Distances1 :
    /\ ai1.plPresent /\ ai1.plDead
    /\ Commit1([ai1 EXCEPT !.plDead = FALSE, !.dist = d])

\* the attack interval of the monster elapses since its last attack
Ai1Elapse ==
  /\ ai1.lastAttack = "recent"
  /\ Commit1([ai1 EXCEPT !.lastAttack = "old"])

NextAi1 ==
  \/ Ai1Activate \/ Ai1SetAggroTarget \/ Ai1Update
  \/ Ai1TimerWander \/ Ai1TimerCheckPlayers \/ Ai1TimerAttack
  \/ Ai1TimerReturn \/ Ai1TimerBack \/ Ai1TimerWanderMove
  \/ Ai1MonsterDie \/ Ai1MonsterRespawn
  \/ Ai1PlayerMove \/ Ai1PlayerLeave \/ Ai1PlayerRespawn \/ Ai1Elapse

SpecAi1 == InitAi1 /\ [][NextAi1]_vars

---------------------------------------------------------------------------
(* SpecEffects: one holder's StatusEffectManager and one effect id; effects  *)
(* of that id are applied, stacked, extended, swept and timed out.           *)

FxDuration == 2
MaxFxTime == 5
MaxApplied == 5
FxStackCaps == {3, 5}
FxAmounts == {1, 2}

FxConfigs ==
  [isStackable : BOOLEAN, maxStacks : FxStackCaps, duration : {0, FxDuration}]

FxNoRet == [op |-> "none", pre |-> <<>>, arg |-> 0, notified |-> {}]

\* new StatusEffectManager(entity); the effect objects share one configuration
InitEffects ==
  /\ \E config \in FxConfigs :
       fx = [config |-> config, held |-> FALSE, e |-> StatusEffect_new(config),
             applied |-> 0, removedN |-> 0]
  /\ fxNow = 0
  /\ fxRet = FxNoRet
  /\ CoreUnused
  /\ ValidateUnused
  /\ Ai1Unused
  /\ ListenerUnused
  /\ ClientUnused

FxDone(next, op, arg, notified) ==
  /\ fx' = next
  /\ fxRet' = [op |-> op, pre |-> fx, arg |-> arg, notified |-> notified]
  /\ UNCHANGED <<statsVars, combatVars, monsterVars, validateVars, ai1Vars, listenerVars, clientVars>>

\* manager.applyEffect(effect): the object passed in is a new StatusEffect or,
\* when the holder has one, the very object it holds
FxApply ==
  \E same \in BOOLEAN :
    /\ same => fx.held
    /\ UNCHANGED fxNow
    /\ LET incoming == IF same THEN fx.e ELSE StatusEffect_new(fx.config)
           r == StatusEffectManager_applyEffect([held |-> fx.held, e |-> fx.e], incoming, fxNow)
           n == IF "added" \in r.notified THEN 1
                ELSE IF fx.applied = 0 \/ fx.applied >= MaxApplied THEN 0
                ELSE fx.applied + 1
       IN FxDone([fx EXCEPT !.held = r.m.held, !.e = r.m.e, !.applied = n,
                            !.removedN = IF "added" \in r.notified THEN 0 ELSE @],
                 "apply", IF same THEN 1 ELSE 0, r.notified)

\* manager.removeEffect(id)
FxRemoveEffect ==
  /\ UNCHANGED fxNow
  /\ LET r == StatusEffectManager_removeEffect([held |-> fx.held, e |-> fx.e])
     IN FxDone([fx EXCEPT !.held = r.m.held, !.e = r.m.e, !.applied = 0,
                          !.removedN = @ + Cardinality(r.notified)],
               "removeEffect", 0, r.notified)

\* manager.getEffect(id).removeStacks(k)
FxRemoveStacks ==
  \E k \in FxAmounts :
    /\ fx.held
    /\ UNCHANGED fxNow
    /\ FxDone([fx EXCEPT !.e = StatusEffect_removeStacks(@, k), !.applied = 0],
              "removeStacks", k, {})

\* manager.getEffect(id).extendDuration(x)
FxExtend ==
  \E x \in FxAmounts :
    /\ fx.held
    /\ fx.e.endTime + x <= MaxFxTime
    /\ UNCHANGED fxNow
    /\ FxDone([fx EXCEPT !.e = StatusEffect_extendDuration(@, x, fxNow)], "extend", x, {})

\* manager.getEffect(id).refreshDuration()
FxRefresh ==
  /\ fx.held
  /\ UNCHANGED fxNow
  /\ FxDone([fx EXCEPT !.e = StatusEffect_refreshDuration(@, fxNow)], "refresh", 0, {})

\* CombatSystem.update -> manager.update(deltaTime)
FxUpdate ==
  /\ UNCHANGED fxNow
  /\ LET r == StatusEffectManager_update([held |-> fx.held, e |-> fx.e], fxNow)
     IN FxDone([fx EXCEPT !.held = r.m.held, !.e = r.m.e,
                          !.applied = IF r.notified = {} THEN @ ELSE 0,
                          !.removedN = @ + Cardinality(r.notified)],
               "update", 0, r.notified)

\* the removal timeout fires, at its due time or later: () => this.remove()
FxTimer ==
  /\ fx.e.removalTimer # NoTimer
  /\ fxNow >= fx.e.removalTimer
  /\ UNCHANGED fxNow
  /\ FxDone([fx EXCEPT !.e = StatusEffect_remove(@), !.applied = 0], "timer", 0, {})

\* time passes
FxTick ==
  /\ fxNow < MaxFxTime
  /\ fxNow' = fxNow + 1
  /\ fxRet' = FxNoRet
  /\ UNCHANGED <<fx, statsVars, combatVars, monsterVars, validateVars, ai1Vars, listenerVars, clientVars>>

NextEffects ==
  \/ FxApply
  \/ FxRemoveEffect
  \/ FxRemoveStacks
  \/ FxExtend
  \/ FxRefresh
  \/ FxUpdate
  \/ FxTimer
  \/ FxTick

SpecEffects == InitEffects /\ [][NextEffects]_vars

---------------------------------------------------------------------------
(* SpecListeners: a monster attacks a player through the CombatSystem while *)
(* callers register listeners, some of which throw, on the system and on    *)
(* the player's stat block. A listener list is a sequence in registration   *)
(* order; "system" is the closure setupEntity registers on a stat block.    *)

MaxListeners == 3
LnKinds == {"ok", "throws"}
LnAttacker == "m1"
LnTarget == "p1"

LnSilent == [invoked |-> 0, threw |-> FALSE, system |-> FALSE, sysInvoked |-> 0]

\* CombatSystem._notifyAttack / _notifyDamage / _notifyDeath: each listener is
\* called inside its own try/catch
CombatSystem_notify(listeners) == [invoked |-> Len(listeners), threw |-> FALSE]

\* CombatStats._notifyDamageListeners / _notifyDeathListeners: a plain loop,
\* which the first exception leaves; sysListeners are the listeners the
\* "system" closure broadcasts to
CombatStats_notifyListeners(listeners, sysListeners) ==
  LET throwers == {i \in 1 .. Len(listeners) : listeners[i] = "throws"}
      n == IF throwers = {} THEN Len(listeners)
           ELSE CHOOSE i \in throwers : \A j \in throwers : i <= j
      system == \E i \in 1 .. n : listeners[i] = "system"
  IN [ invoked |-> n, threw |-> throwers # {}, system |-> system,
       sysInvoked |-> IF system THEN CombatSystem_notify(sysListeners).invoked ELSE 0 ]

\* setupEntity(entity) with the listeners it pushes on the target's stat block
LnSetupEntity(l, id) ==
  LET sys == CombatSystem_setupEntity([entities |-> l.entities, wired |-> l.wired], id)
      fresh == id = LnTarget /\ sys.wired[id] > l.wired[id]
  IN [l EXCEPT !.entities = sys.entities, !.wired = sys.wired,
               !.statsDamage = IF fresh THEN Append(@, "system") ELSE @,
               !.statsDeath = IF fresh THEN Append(@, "system") ELSE @]

\* target.combatStats.applyDamage(...) with its listeners called: die() notifies
\* the death listeners before applyDamage notifies the damage listeners
LnStatsApplyDamage(l, amount, type) ==
  LET r == CombatStats_applyDamage(l.stats[LnTarget], amount, type)
      death == IF r.deathFired
                 THEN CombatStats_notifyListeners(l.statsDeath, l.onDeath) ELSE LnSilent
      damage == IF r.damageFired /\ ~death.threw
                  THEN CombatStats_notifyListeners(l.statsDamage, l.onDamage) ELSE LnSilent
  IN [ l |-> [l EXCEPT !.stats[LnTarget] = r.stats,
                       !.entities = IF death.system
                                      THEN CombatSystem_handleEntityDeath(@, LnTarget) ELSE @],
       r |-> r, death |-> death, damage |-> damage,
       threw |-> death.threw \/ damage.threw ]

LnNoRet == [op |-> "none", threw |-> FALSE, success |-> FALSE, attackFired |-> FALSE,
            damageFired |-> FALSE, deathFired |-> FALSE, attack |-> 0,
            death |-> LnSilent, damage |-> LnSilent]

LnRegistered(l) ==
  Len(l.onAttack) + Len(l.onDamage) + Len(l.onDeath)
    + Cardinality({i \in 1 .. Len(l.statsDamage) : l.statsDamage[i] # "system"})
    + Cardinality({i \in 1 .. Len(l.statsDeath) : l.statsDeath[i] # "system"})

\* new CombatSystem(game); the attacker and the target carry their stat blocks
InitListeners ==
  /\ ln = [ stats |-> [id \in {LnAttacker, LnTarget} |->
                         CombatStats_new([level |-> 1, maxHp |-> SysMaxHp, hp |-> 0,
                                          attack |-> 0, defense |-> 0, attackCooldown |-> 0,
                                          attackRange |-> 0,
                                          resist |-> [t \in DamageTypes |-> 0]])],
            entities |-> <<>>, wired |-> [id \in EntityIds |-> 0],
            onAttack |-> <<>>, onDamage |-> <<>>, onDeath |-> <<>>,
            statsDamage |-> <<>>, statsDeath |-> <<>> ]
  /\ lnRet = LnNoRet
  /\ CoreUnused
  /\ ValidateUnused
  /\ Ai1Unused
  /\ EffectUnused
  /\ ClientUnused

LnOthers == <<statsVars, combatVars, monsterVars, validateVars, ai1Vars, effectVars, clientVars>>

\* combatSystem.onAttack(listener) / onDamage(listener) / onDeath(listener)
LnSystemOn ==
  \E event \in {"attack", "damage", "death"}, kind \in LnKinds :
    /\ LnRegistered(ln) < MaxListeners
    /\ ln' = CASE event = "attack" -> [ln EXCEPT !.onAttack = Append(@, kind)]
               [] event = "damage" -> [ln EXCEPT !.onDamage = Append(@, kind)]
               [] event = "death" -> [ln EXCEPT !.onDeath = Append(@, kind)]
    /\ lnRet' = LnNoRet
    /\ UNCHANGED LnOthers

\* target.combatStats.onDamage(listener) / onDeath(listener)
LnStatsOn ==
  \E event \in {"damage", "death"}, kind \in LnKinds :
    /\ LnRegistered(ln) < MaxListeners
    /\ ln' = IF event = "damage" THEN [ln EXCEPT !.statsDamage = Append(@, kind)]
                                 ELSE [ln EXCEPT !.statsDeath = Append(@, kind)]
    /\ lnRet' = LnNoRet
    /\ UNCHANGED LnOthers

\* combatSystem.processAttack(attacker, target, options) at StartTime
LnProcessAttack ==
  \E ignoreRange \in BOOLEAN, roll \in Rolls :
    LET l1 == LnSetupEntity(LnSetupEntity(ln, LnAttacker), LnTarget)
        reason == DamageCalculator_validateAttack(l1.stats, LnAttacker, LnTarget, StartTime,
                                                  [NoOptions EXCEPT !.ignoreRange = ignoreRange])
        fail == [LnNoRet EXCEPT !.op = "processAttack"]
    IN /\ UNCHANGED LnOthers
       /\ IF reason # "valid" \/ ~CombatStats_canAttack(l1.stats[LnAttacker], StartTime)
            THEN ln' = l1 /\ lnRet' = fail
            ELSE
              LET l2 == [l1 EXCEPT !.stats[LnAttacker] = CombatStats_registerAttack(@, StartTime)]
                  dmg == DamageCalculator_calculateBasicAttackDamage(l2.stats[LnAttacker],
                                                                     roll[1], roll[2])
                  d == LnStatsApplyDamage(l2, dmg.damage, dmg.type)
                  attack == IF d.threw THEN 0 ELSE CombatSystem_notify(d.l.onAttack).invoked
              IN /\ ln' = IF d.threw THEN d.l
                          ELSE [d.l EXCEPT !.entities[LnAttacker] = @ \cup {LnTarget}]
                 /\ lnRet' = [op |-> "processAttack", threw |-> d.threw,
                              success |-> ~d.threw, attackFired |-> TRUE,
                              damageFired |-> d.r.damageFired, deathFired |-> d.r.deathFired,
                              attack |-> attack, death |-> d.death, damage |-> d.damage]

\* combatSystem.applyDamage(target, amount, type, sourceId, options)
LnApplyDamage ==
  \E amount \in SysDamageAmounts :
    LET d == LnStatsApplyDamage(LnSetupEntity(ln, LnTarget), amount, "physical")
    IN /\ UNCHANGED LnOthers
       /\ ln' = d.l
       /\ lnRet' = [op |-> "applyDamage", threw |-> d.threw, success |-> ~d.threw,
                    attackFired |-> FALSE,
                    damageFired |-> d.r.damageFired, deathFired |-> d.r.deathFired,
                    attack |-> 0, death |-> d.death, damage |-> d.damage]

NextListeners == LnSystemOn \/ LnStatsOn \/ LnProcessAttack \/ LnApplyDamage

SpecListeners == InitListeners /\ [][NextListeners]_vars

---------------------------------------------------------------------------
(* inputManager.js: the auto-attack loop of the InputManager. x = the       *)
(* manager's fields with what its handlers read and write:                  *)
(*   autoAttack (config.autoAttack), autoAttackTarget, autoAttackInterval   *)
(*   (the handle field is non-null), live (interval timers of the loop live *)
(*   in the runtime), isAttacking, attackTarget, moving (the monster the    *)
(*   pending arrival callback of moveToPosition will attack),               *)
(*   mst (monster id -> "in": alive within attackRange, "tol": alive within *)
(*   1.2 * attackRange, "far": alive beyond it, "dead", "gone": not in the  *)
(*   entity manager), last (the last handler: its kind, the auto-attack     *)
(*   target it started from, whether that target could not be attacked,     *)
(*   the monsters Player.attackEntity hit).                                 *)

ImMonsters == {"m1", "m2"}
ImPlaces == {"in", "tol", "far"}

ImNoLast == [op |-> "none", target |-> None, mustStop |-> FALSE, attacked |-> {}]

\* Player.attackEntity(targetId): cool tells whether the attack cooldown is
\* running, kills whether the local damage takes the monster's last hp
Player_attackEntity(x, m, cool, kills) ==
  IF cool \/ x.mst[m] \in {"gone", "tol", "far"}
    THEN [x |-> x, ok |-> FALSE]
    ELSE [x |-> [x EXCEPT !.last.attacked = @ \cup {m},
                          !.mst[m] = IF kills /\ @ = "in" THEN "dead" ELSE @],
          ok |-> TRUE]

\* clearInterval(this.autoAttackInterval); this.autoAttackInterval = null
InputManager_clearInterval(x) ==
  IF x.autoAttackInterval
    THEN [x EXCEPT !.live = @ - 1, !.autoAttackInterval = FALSE]
    ELSE x

\* InputManager.stopAutoAttack()
InputManager_stopAutoAttack(x) ==
  IF x.autoAttackInterval
    THEN [InputManager_clearInterval(x) EXCEPT !.autoAttackTarget = None,
                                               !.isAttacking = FALSE, !.attackTarget = None]
    ELSE x

\* InputManager.setAttacking(isAttacking, target, shouldStopAutoAttack)
InputManager_setAttacking(x, isAttacking, target, shouldStopAutoAttack) ==
  LET x1 == [x EXCEPT !.isAttacking = isAttacking, !.attackTarget = target]
  IN IF ~isAttacking /\ shouldStopAutoAttack /\ x1.autoAttackInterval
       THEN InputManager_stopAutoAttack(x1)
       ELSE x1

\* startAutoAttack(targetId) without the clearing of the previous interval
InputManager_startAutoAttack_noClear(x, m) ==
  IF ~x.autoAttack THEN x
  ELSE IF x.autoAttackTarget = m /\ x.autoAttackInterval THEN x
  ELSE IF x.mst[m] \in {"gone", "dead"} THEN x
  ELSE [InputManager_setAttacking([x EXCEPT !.autoAttackTarget = m], TRUE, m, FALSE)
          EXCEPT !.live = @ + 1, !.autoAttackInterval = TRUE]

\* InputManager.startAutoAttack(targetId)
InputManager_startAutoAttack(x, m) ==
  IF ~x.autoAttack THEN x
  ELSE IF x.autoAttackTarget = m /\ x.autoAttackInterval THEN x
  ELSE LET x1 == InputManager_clearInterval(x)
       IN IF x1.mst[m] \in {"gone", "dead"} THEN x1
          ELSE [InputManager_setAttacking([x1 EXCEPT !.autoAttackTarget = m], TRUE, m, FALSE)
                  EXCEPT !.live = @ + 1, !.autoAttackInterval = TRUE]

\* the monster findAndAttackNearbyMonster sorts first: alive, within
\* 1.2 * attackRange, nearest, the first registered on a tie
ImClosest(x) ==
  LET at(place) == {m \in ImMonsters : x.mst[m] = place}
      first(S) == IF "m1" \in S THEN "m1" ELSE CHOOSE m \in S : TRUE
  IN IF at("in") # {} THEN first(at("in"))
     ELSE IF at("tol") # {} THEN first(at("tol"))
     ELSE None

\* InputManager.findAndAttackNearbyMonster()
InputManager_findAndAttackNearbyMonster(x, cool, kills) ==
  IF ~x.autoAttack \/ ImClosest(x) = None
    THEN x
    ELSE LET r == Player_attackEntity(x, ImClosest(x), cool, kills)
         IN IF r.ok THEN InputManager_startAutoAttack(r.x, ImClosest(x)) ELSE r.x

\* the target of the running loop cannot be attacked: auto-attack is
\* disabled, or the monster is missing, dead or out of range
ImMustStop(x) ==
  \/ ~x.autoAttack
  \/ x.autoAttackTarget = None
  \/ x.mst[x.autoAttackTarget] \in {"gone", "dead", "far"}

\* the interval callback set by startAutoAttack
InputManager_autoAttackTick(x, cool, kills) ==
  IF ~x.autoAttack THEN InputManager_stopAutoAttack(x)
  ELSE IF x.autoAttackTarget = None \/ x.mst[x.autoAttackTarget] \in {"gone", "dead"}
    THEN InputManager_findAndAttackNearbyMonster(InputManager_stopAutoAttack(x), cool, kills)
  ELSE IF x.mst[x.autoAttackTarget] = "far" THEN InputManager_stopAutoAttack(x)
  ELSE Player_attackEntity(x, x.autoAttackTarget, cool, kills).x

\* InputManager.handleRightClick(event): the click hits the monster m, or
\* the ground (m = None)
InputManager_handleRightClick(x, m, cool, kills) ==
  IF m = None
    THEN [InputManager_setAttacking(x, FALSE, None, TRUE) EXCEPT !.moving = None]
  ELSE IF x.mst[m] \in {"gone", "dead"} THEN x
  ELSE LET x1 == IF x.autoAttackTarget # m THEN InputManager_clearInterval(x) ELSE x
       IN IF x.mst[m] \in {"in", "tol"}
            THEN LET r == Player_attackEntity(x1, m, cool, kills)
                 IN IF r.x.autoAttack THEN InputManager_startAutoAttack(r.x, m) ELSE r.x
            ELSE LET x2 == InputManager_setAttacking(x, TRUE, m, TRUE)
                 IN [(IF x2.autoAttackTarget # m THEN InputManager_clearInterval(x2) ELSE x2)
                       EXCEPT !.moving = m]

\* the arrival callback handleRightClick passes to Player.moveToPosition
InputManager_onArrival(x, cool, kills) ==
  LET m == x.moving
      x0 == [x EXCEPT !.moving = None]
  IN IF x0.mst[m] \in {"gone", "dead"}
       THEN InputManager_setAttacking(x0, FALSE, None, TRUE)
       ELSE LET r == Player_attackEntity(x0, m, cool, kills)
            IN IF r.ok /\ r.x.autoAttack THEN InputManager_startAutoAttack(r.x, m) ELSE r.x

\* new InputManager(...)
InputManager_new ==
  [ autoAttack |-> TRUE, autoAttackTarget |-> None, autoAttackInterval |-> FALSE, live |-> 0,
    isAttacking |-> FALSE, attackTarget |-> None, moving |-> None ]

---------------------------------------------------------------------------
(* SpecAuto: the InputManager's auto-attack loop over two monsters          *)

InitAuto ==
  /\ \E mst \in [ImMonsters -> ImPlaces] :
       im = InputManager_new @@ [mst |-> mst, last |-> ImNoLast]
  /\ reg = <<>>
  /\ ent = <<>>
  /\ duel = <<>>
  /\ CoreUnused
  /\ ValidateUnused
  /\ Ai1Unused
  /\ EffectUnused
  /\ ListenerUnused

ImOthers == <<statsVars, combatVars, monsterVars, validateVars, ai1Vars, effectVars,
              listenerVars, reg, ent, duel>>

\* the handler starts with a fresh record of what it does
ImStart(op) ==
  [im EXCEPT !.last = [op |-> op, target |-> im.autoAttackTarget,
                       mustStop |-> ImMustStop(im), attacked |-> {}]]

\* a right click on a monster or on the ground
ImRightClick ==
  \E m \in ImMonsters \cup {None}, cool \in BOOLEAN, kills \in BOOLEAN :
    /\ m # None => im.mst[m] # "gone"
    /\ im' = InputManager_handleRightClick(ImStart("click"), m, cool, kills)
    /\ UNCHANGED ImOthers

\* the player arrives where the right click sent it
ImArrive ==
  \E cool \in BOOLEAN, kills \in BOOLEAN :
    /\ im.moving # None
    /\ im' = InputManager_onArrival(ImStart("arrive"), cool, kills)
    /\ UNCHANGED ImOthers

\* an interval timer of the loop fires
ImTick ==
  \E cool \in BOOLEAN, kills \in BOOLEAN :
    /\ im.live > 0
    /\ im' = InputManager_autoAttackTick(ImStart("tick"), cool, kills)
    /\ UNCHANGED ImOthers

\* stopAutoAttack() called from outside the loop (dispose)
ImStopAutoAttack ==
  /\ im' = InputManager_stopAutoAttack(ImStart("stop"))
  /\ UNCHANGED ImOthers

\* the auto-attack checkbox of the configuration menu changes
ImToggleAutoAttack ==
  /\ LET x == [ImStart("toggle") EXCEPT !.autoAttack = ~@]
     IN im' = IF ~x.autoAttack THEN InputManager_stopAutoAttack(x) ELSE x
  /\ UNCHANGED ImOthers

\* 'monsterDied' event of game.js: the monster dies, the loop on it is stopped
ImMonsterDied ==
  \E m \in ImMonsters :
    /\ im.mst[m] \in ImPlaces
    /\ LET x == [ImStart("died") EXCEPT !.mst[m] = "dead"]
       IN im' = IF x.autoAttackTarget = m
                  THEN [InputManager_stopAutoAttack(x) EXCEPT !.autoAttackTarget = None]
                  ELSE x
    /\ UNCHANGED ImOthers

\* the monster or the player walks, the monster is removed, or it respawns
ImMonsterChange ==
  \E m \in ImMonsters, place \in ImPlaces \cup {"gone"} :
    /\ im.mst[m] # place
    /\ im.mst[m] = "gone" => place # "gone"
    /\ im' = [im EXCEPT !.mst[m] = place, !.last = ImNoLast]
    /\ UNCHANGED ImOthers

NextAuto ==
  \/ ImRightClick \/ ImArrive \/ ImTick \/ ImStopAutoAttack \/ ImToggleAutoAttack
  \/ ImMonsterDied \/ ImMonsterChange

SpecAuto == InitAuto /\ [][NextAuto]_vars

---------------------------------------------------------------------------
(* The Entity Directory (EntityManager) and the records of the CombatSystem. *)
(* r = [present, stats, wired, entities, last]:                             *)
(*   present   id -> the id is in the players / monsters map                *)
(*   stats     the combatStats of the entity objects that carry one         *)
(*   wired     id -> closures of setupEntity on that object's stat block    *)
(*   entities  CombatSystem.entities: registered id -> its attackTargets    *)
(*   last      the last damage applied: to whom, whether the target was     *)
(*             registered, what the stat block fired, how often the system  *)
(*             broadcast damage and death to its listeners                  *)

RegIds == {"p1", "m1"}
\* setupEntity calls on one entity object the model follows
MaxWired == 3

RegNoLast == [op |-> "none", id |-> None, registered |-> FALSE, damageFired |-> FALSE,
              deathFired |-> FALSE, damageNotes |-> 0, deathNotes |-> 0]

Without(f, id) == [a \in DOMAIN f \ {id} |-> f[a]]

\* CombatSystem.removeEntity(entityId)
CombatSystem_removeEntity(ents, id) ==
  IF id \notin DOMAIN ents THEN ents ELSE Without(ents, id)

\* CombatSystem.setupEntity(entity, {stats: {maxHp}}) on the entity object
\* the directory holds under the id
Registry_setupEntity(r, id) ==
  LET sys == CombatSystem_setupEntity([entities |-> r.entities, wired |-> r.wired], id)
  IN IF id \in DOMAIN r.entities
       THEN r
       ELSE [r EXCEPT !.entities = sys.entities, !.wired = sys.wired,
                      !.stats = IF id \in DOMAIN @ THEN @
                                ELSE @ @@ (id :> CombatStats_new(
                                       [level |-> 1, maxHp |-> SysMaxHp, hp |-> 0, attack |-> 0,
                                        defense |-> 0, attackCooldown |-> 0, attackRange |-> 0,
                                        resist |-> [t \in DamageTypes |-> 0]]))]

\* EntityManager.createOrUpdatePlayer / createMonster for an id the directory
\* does not hold: a new entity object, registered with the combat system
EntityManager_create(r, id) ==
  Registry_setupEntity([r EXCEPT !.present[id] = TRUE, !.stats = Without(@, id),
                                 !.wired[id] = 0], id)

\* EntityManager.removePlayer / removeMonster
EntityManager_remove(r, id) ==
  IF r.present[id] THEN [r EXCEPT !.present[id] = FALSE] ELSE r

\* entity.combatStats.applyDamage(amount, type, sourceId): each closure wired
\* by setupEntity runs _handleEntityDamaged / _handleEntityDeath, which
\* broadcast to the system's listeners
Registry_statsApplyDamage(r, op, registered, t, amount) ==
  LET d == CombatStats_applyDamage(r.stats[t], amount, "physical")
  IN [r EXCEPT !.stats[t] = d.stats,
               !.entities = IF d.deathFired /\ r.wired[t] > 0
                              THEN CombatSystem_handleEntityDeath(@, t) ELSE @,
               !.last = [op |-> op, id |-> t, registered |-> registered,
                         damageFired |-> d.damageFired, deathFired |-> d.deathFired,
                         damageNotes |-> IF d.damageFired THEN r.wired[t] ELSE 0,
                         deathNotes |-> IF d.deathFired THEN r.wired[t] ELSE 0]]

---------------------------------------------------------------------------
(* SpecRegistry: a player and a monster created, removed, registered,       *)
(* unregistered, attacked and damaged                                       *)

InitRegistry ==
  /\ reg = [ present |-> [id \in RegIds |-> FALSE], stats |-> <<>>,
             wired |-> [id \in RegIds |-> 0], entities |-> <<>>, last |-> RegNoLast ]
  /\ im = <<>>
  /\ ent = <<>>
  /\ duel = <<>>
  /\ CoreUnused
  /\ ValidateUnused
  /\ Ai1Unused
  /\ EffectUnused
  /\ ListenerUnused

RegOthers == <<statsVars, combatVars, monsterVars, validateVars, ai1Vars, effectVars,
               listenerVars, im, ent, duel>>

\* the server announces a player or a monster
RegCreate ==
  \E id \in RegIds :
    /\ ~reg.present[id]
    /\ reg' = [EntityManager_create(reg, id) EXCEPT !.last = RegNoLast]
    /\ UNCHANGED RegOthers

\* 'playerLeft' / monster removal: the directory drops the entity
RegRemove ==
  \E id \in RegIds :
    /\ reg.present[id]
    /\ reg' = [EntityManager_remove(reg, id) EXCEPT !.last = RegNoLast]
    /\ UNCHANGED RegOthers

\* combatSystem.setupEntity(entity)
RegSetupEntity ==
  \E id \in RegIds :
    /\ reg.present[id] /\ reg.wired[id] < MaxWired
    /\ reg' = [Registry_setupEntity(reg, id) EXCEPT !.last = RegNoLast]
    /\ UNCHANGED RegOthers

\* combatSystem.removeEntity(id)
RegRemoveEntity ==
  \E id \in RegIds :
    /\ reg' = [reg EXCEPT !.entities = CombatSystem_removeEntity(@, id), !.last = RegNoLast]
    /\ UNCHANGED RegOthers

\* combatSystem.processAttack(attacker, target) between two entities of the
\* directory that carry stat blocks
RegProcessAttack ==
  \E a \in RegIds, t \in RegIds, roll \in Rolls :
    /\ a # t /\ reg.present[a] /\ reg.present[t] /\ {a, t} \subseteq DOMAIN reg.stats
    /\ reg.wired[a] < MaxWired /\ reg.wired[t] < MaxWired
    /\ LET r1 == Registry_setupEntity(Registry_setupEntity(reg, a), t)
           reason == DamageCalculator_validateAttack(r1.stats, a, t, StartTime,
                                                     [NoOptions EXCEPT !.ignoreRange = TRUE])
       IN IF reason # "valid" \/ ~CombatStats_canAttack(r1.stats[a], StartTime)
            THEN reg' = [r1 EXCEPT !.last = RegNoLast]
            ELSE LET r2 == [r1 EXCEPT !.stats[a] = CombatStats_registerAttack(@, StartTime)]
                     dmg == DamageCalculator_calculateBasicAttackDamage(r2.stats[a],
                                                                        roll[1], roll[2])
                     r3 == Registry_statsApplyDamage(r2, "processAttack", TRUE, t, dmg.damage)
                 IN reg' = [r3 EXCEPT !.entities[a] = @ \cup {t}]
    /\ UNCHANGED RegOthers

\* combatSystem.applyDamage(target, amount): registers the target first
RegApplyDamage ==
  \E t \in RegIds, amount \in SysDamageAmounts :
    /\ reg.present[t] /\ t \in DOMAIN reg.stats /\ reg.wired[t] < MaxWired
    /\ reg' = Registry_statsApplyDamage(Registry_setupEntity(reg, t), "applyDamage", TRUE,
                                        t, amount)
    /\ UNCHANGED RegOthers

\* entity.combatStats.applyDamage(amount) called on the stat block itself
RegStatsApplyDamage ==
  \E t \in RegIds, amount \in SysDamageAmounts :
    /\ reg.present[t] /\ t \in DOMAIN reg.stats
    /\ reg' = Registry_statsApplyDamage(reg, "statsApplyDamage", t \in DOMAIN reg.entities,
                                        t, amount)
    /\ UNCHANGED RegOthers

NextRegistry ==
  \/ RegCreate \/ RegRemove \/ RegSetupEntity \/ RegRemoveEntity
  \/ RegProcessAttack \/ RegApplyDamage \/ RegStatsApplyDamage

SpecRegistry == InitRegistry /\ [][NextRegistry]_vars

---------------------------------------------------------------------------
(* An entity and its stat block (SpecSync)                                 *)
(* ent holds one entity object (a player or a monster): its own hp, maxHp  *)
(* and isDead, the fields of its combatStats, and the respawn timers that  *)
(* its die() has scheduled and that have not fired yet.                    *)

EntKinds == {"player", "monster"}

\* maxHp of the local player in the model (playerData.maxHp || 100 in the code)
SyncPlayerMaxHp == 20

EntNoLast == [op |-> "none", died |-> FALSE]

\* the entity as constructed: Monster's constructor builds its own stat block,
\* createLocalPlayer has setupEntity build the player's
Entity_new(kind) ==
  LET maxHp == IF kind = "monster" THEN MONSTER_MAX_HP ELSE SyncPlayerMaxHp
  IN [ kind |-> kind, hp |-> maxHp, maxHp |-> maxHp, isDead |-> FALSE,
       stats |-> CombatStats_new([level |-> 1, maxHp |-> maxHp,
                                  hp |-> IF kind = "monster" THEN maxHp ELSE 0,
                                  attack |-> 10,
                                  defense |-> IF kind = "monster" THEN 2 ELSE 5,
                                  attackCooldown |-> 0, attackRange |-> 0,
                                  resist |-> [t \in DamageTypes |-> 0]]),
       respawn |-> 0 ]

\* EntityManager.damagePlayer / damageMonster with a combat system and a known
\* attacker: the hit goes to processAttack, which works on the stat block; the
\* entity's own fields are returned, not written
EntityManager_damageViaCombat(e, amount) ==
  [e EXCEPT !.stats = CombatStats_applyDamage(e.stats, amount, "physical").stats]

\* Monster.die() of an entity with a stat block
MonsterEntity_die(e) ==
  IF e.isDead
    THEN e
    ELSE [e EXCEPT !.isDead = TRUE,
                   !.hp = IF e.stats.isDead THEN @ ELSE 0,
                   !.respawn = @ + 1]

\* Monster.takeDamage(damage, attackerId)
MonsterEntity_takeDamage(e, amount) ==
  LET damage == Max(1, amount)
      hp1 == Max(0, e.hp - damage)
      e1 == [e EXCEPT !.hp = hp1, !.stats.hp = hp1]
  IN IF e.isDead THEN e
     ELSE IF hp1 <= 0 THEN MonsterEntity_die([e1 EXCEPT !.hp = 0, !.isDead = TRUE])
     ELSE e1

\* Monster.updateData({hp})
MonsterEntity_updateData(e, hp) ==
  LET e1 == [e EXCEPT !.hp = hp, !.stats.hp = hp,
                      !.isDead = (hp <= 0), !.stats.isDead = (hp <= 0)]
  IN IF e1.isDead THEN MonsterEntity_die(e1) ELSE e1

\* the 'monsterDamaged' handler's hp synchronisation and death check
MonsterEntity_onMonsterDamaged(e, hp) ==
  LET e1 == IF e.hp # hp
              THEN [e EXCEPT !.hp = hp, !.stats.hp = hp,
                             !.isDead = (hp <= 0), !.stats.isDead = (hp <= 0)]
              ELSE e
  IN IF hp <= 0 /\ ~e1.isDead THEN MonsterEntity_die(e1) ELSE e1

\* Monster.respawn()
MonsterEntity_respawn(e) == [e EXCEPT !.hp = e.maxHp, !.isDead = FALSE]

\* Player.die()
PlayerEntity_die(e) == [e EXCEPT !.isDead = TRUE, !.respawn = @ + 1]

\* Player.takeDamage(damage, attackerId)
PlayerEntity_takeDamage(e, amount) ==
  LET hp1 == Max(0, e.hp - amount)
  IN IF e.isDead THEN e
     ELSE IF hp1 <= 0 THEN PlayerEntity_die([e EXCEPT !.hp = hp1, !.isDead = TRUE])
     ELSE [e EXCEPT !.hp = hp1]

\* the 'playerDamaged' handler for the local player
PlayerEntity_onPlayerDamaged(e, hp) ==
  LET e1 == [e EXCEPT !.stats.hp = Max(0, hp), !.hp = Max(0, hp)]
  IN IF e1.hp <= 0 /\ ~e1.isDead THEN PlayerEntity_die(e1) ELSE e1

\* Player.respawn()
PlayerEntity_respawn(e) ==
  IF ~e.isDead THEN e ELSE [e EXCEPT !.hp = e.maxHp, !.isDead = FALSE]

InitSync ==
  /\ \E kind \in EntKinds : ent = Entity_new(kind) @@ [last |-> EntNoLast]
  /\ im = <<>>
  /\ reg = <<>>
  /\ duel = <<>>
  /\ CoreUnused
  /\ ValidateUnused
  /\ Ai1Unused
  /\ EffectUnused
  /\ ListenerUnused

SyncOthers == <<statsVars, combatVars, monsterVars, validateVars, ai1Vars, effectVars,
                listenerVars, im, reg, duel>>

\* what a handler leaves behind: the entity, the handler's name, and whether
\* this call is the one that killed the stat block
SyncCommit(e, op) ==
  /\ e.respawn <= MaxRespawn
  /\ ent' = [f \in DOMAIN e \ {"last"} |-> e[f]]
              @@ [last |-> [op |-> op, died |-> e.stats.isDead /\ ~ent.stats.isDead]]
  /\ UNCHANGED SyncOthers

\* a monster's performAttack hits the player, or a player's attack hits the
\* monster, through the entity manager with the combat system installed
SyncDamageViaCombat ==
  \E amount \in HitAmounts :
    /\ SyncCommit(EntityManager_damageViaCombat(ent, amount), "processAttack")

\* the same calls without a known attacker, or on a remote player
SyncTakeDamage ==
  \E amount \in HitAmounts :
    /\ SyncCommit(IF ent.kind = "monster" THEN MonsterEntity_takeDamage(ent, amount)
                  ELSE PlayerEntity_takeDamage(ent, amount), "takeDamage")

\* the server reports the entity's hp after a hit
SyncServerDamaged ==
  \E hp \in ServerHps :
    /\ SyncCommit(IF ent.kind = "monster" THEN MonsterEntity_onMonsterDamaged(ent, hp)
                  ELSE PlayerEntity_onPlayerDamaged(ent, hp), "damagedEvent")

\* the server sends the monster's data
SyncUpdateData ==
  \E hp \in ServerHps :
    /\ ent.kind = "monster"
    /\ SyncCommit(MonsterEntity_updateData(ent, hp), "updateData")

\* the server reports the monster's death
SyncMonsterDied ==
  /\ ent.kind = "monster"
  /\ SyncCommit(MonsterEntity_die(ent), "die")

\* a respawn timer scheduled by die() fires
SyncRespawnTimer ==
  /\ ent.respawn > 0
  /\ LET e == [ent EXCEPT !.respawn = @ - 1]
     IN SyncCommit(IF ent.kind = "monster" THEN MonsterEntity_respawn(e)
                   ELSE PlayerEntity_respawn(e), "respawn")

\* the server reports the monster's respawn
SyncMonsterRespawn ==
  /\ ent.kind = "monster"
  /\ SyncCommit(MonsterEntity_respawn(ent), "respawn")

NextSync ==
  \/ SyncDamageViaCombat \/ SyncTakeDamage \/ SyncServerDamaged \/ SyncUpdateData
  \/ SyncMonsterDied \/ SyncRespawnTimer \/ SyncMonsterRespawn

SpecSync == InitSync /\ [][NextSync]_vars

---------------------------------------------------------------------------
(* Two entities attacking each other (SpecDuel)                            *)
(* duel holds the stat blocks and the MP of two monsters within melee      *)
(* range of each other, the clock, and what the last call did.             *)

DuelIds == {"m1", "m2"}

\* maxHp of the two stat blocks
DuelMaxHp == 20

\* clock ticks of one attack cooldown each after StartTime
MaxDuelTicks == 1

\* the skills used between the two: free or costly, with the attacker's own
\* attack or a base damage, no status effects, the default range
DuelSkills ==
  [mpCost : {0, 30}, baseDamage : {0, 30}, effects : {FALSE}, range : {0},
   ignoreRange : {FALSE}, canTargetDead : BOOLEAN]

DuelNoLast == [op |-> "none", a |-> None, attackerDead |-> FALSE, success |-> FALSE,
               hpChanged |-> FALSE]

\* both entities carry the stat block setupEntity gives them
InitDuel ==
  /\ duel = [ st |-> [id \in DuelIds |->
                        CombatStats_new([level |-> 1, maxHp |-> DuelMaxHp, hp |-> 0,
                                         attack |-> 0, defense |-> 0, attackCooldown |-> 0,
                                         attackRange |-> 0,
                                         resist |-> [d \in DamageTypes |-> 0]])],
              mp |-> [id \in DuelIds |-> BASE_MP],
              time |-> StartTime,
              last |-> DuelNoLast ]
  /\ im = <<>>
  /\ reg = <<>>
  /\ ent = <<>>
  /\ CoreUnused
  /\ ValidateUnused
  /\ Ai1Unused
  /\ EffectUnused
  /\ ListenerUnused

DuelOthers == <<statsVars, combatVars, monsterVars, validateVars, ai1Vars, effectVars,
                listenerVars, im, reg, ent>>

\* what the call on attacker a and target t left behind
DuelLast(op, a, t, st1, success) ==
  [ op |-> op, a |-> a, attackerDead |-> duel.st[a].isDead, success |-> success,
    hpChanged |-> st1[t].hp # duel.st[t].hp ]

\* processAttack(a, t) at the current time
DuelProcessAttack ==
  \E a \in DuelIds, t \in DuelIds, roll \in Rolls :
    LET out == CombatSystem_processAttack(duel.st, a, t, duel.time, NoOptions, roll)
    IN /\ a # t
       /\ duel' = [duel EXCEPT !.st = out.stats,
                               !.last = DuelLast("processAttack", a, t, out.stats,
                                                 out.success)]
       /\ UNCHANGED DuelOthers

\* processSkillUse(a, t, skill) at the current time
DuelProcessSkillUse ==
  \E a \in DuelIds, t \in DuelIds, skill \in DuelSkills, roll \in SkillRolls :
    LET out == CombatSystem_processSkillUse(duel.st, duel.mp[a], a, t, duel.time, skill, roll)
    IN /\ a # t
       /\ duel' = [duel EXCEPT !.st = out.stats, !.mp[a] = out.mp,
                               !.last = DuelLast("processSkillUse", a, t, out.stats,
                                                 out.success)]
       /\ UNCHANGED DuelOthers

\* one attack cooldown passes
DuelTick ==
  /\ duel.time < StartTime + MaxDuelTicks * DEFAULT_ATTACK_COOLDOWN
  /\ duel' = [duel EXCEPT !.time = @ + DEFAULT_ATTACK_COOLDOWN, !.last = DuelNoLast]
  /\ UNCHANGED DuelOthers

NextDuel == DuelProcessAttack \/ DuelProcessSkillUse \/ DuelTick

SpecDuel == InitDuel /\ [][NextDuel]_vars

---------------------------------------------------------------------------
(* Properties of the stat block (SpecStats) *)

\* C1: after every applyDamage / heal call, whatever the amounts, damage
\* types and order, the hit points satisfy 0 <= hp <= maxHp.
C1_HpWithinBounds == 0 <= cs.hp /\ cs.hp <= cs.maxHp

\* C2: in every state reachable through applyDamage, heal, die and revive,
\* isDead holds exactly when hp is 0 (so a dead block keeps hp 0 until revive).
C2_DeadIffZeroHp == cs.isDead <=> (cs.hp = 0)

\* C3: between two revives the death listeners run at most once, a dead
\* block has had them run exactly once and has hp 0; further die() calls and
\* lethal applyDamage calls on a dead block notify nobody and change nothing.
C3_DeathOnce ==
  /\ csDeaths <= 1
  /\ cs.isDead => (csDeaths = 1 /\ cs.hp = 0)
  /\ (cs.isDead /\ csRet.op \in {"die", "applyDamage"} /\ "death" \notin csRet.fired)
       => (csRet.fired = {} /\ csRet.value = 0)

\* a second die() on an already dead block has just returned
C3_Witness == cs.isDead /\ csDeaths = 1 /\ csRet.op = "die" /\ csRet.fired = {}

---------------------------------------------------------------------------
(* Properties of the combat system (SpecCombat) *)

CooldownReasons == {"Atacante em cooldown", "Ainda em cooldown de ataque"}

\* C4 (as stated): a processAttack that follows a successful one by the same
\* attacker by less than attackCooldown ms returns success:false with a
\* cooldown-related reason and changes no entity's hp.
C4_CooldownReasonAlways ==
  (sysRet.op = "processAttack" /\ sysRet.early)
    => (~sysRet.success /\ ~sysRet.hpChanged /\ sysRet.message \in CooldownReasons)

\* C4 (amended): such a processAttack returns success:false and changes no
\* entity's hp; its reason is cooldown-related when attacker and target are
\* both alive (a dead attacker or target is reported instead).
C4_CooldownRejects ==
  (sysRet.op = "processAttack" /\ sysRet.early)
    => /\ ~sysRet.success
       /\ ~sysRet.hpChanged
       /\ (~stats[sysRet.attacker].isDead /\ ~stats[sysRet.target].isDead)
            => sysRet.message \in CooldownReasons

\* a second attack inside the cooldown window was rejected for cooldown
C4_Witness ==
  /\ sysRet.op = "processAttack" /\ sysRet.early
  /\ ~sysRet.success /\ sysRet.message = "Atacante em cooldown"

\* C7: after any processAttack or applyDamage completes, no registered
\* entity's attackTargets set contains the id of a dead entity.
C7_NoDeadAttackTargets ==
  \A a \in DOMAIN entities : \A t \in entities[a] : ~stats[t].isDead

\* C8: whenever a live monster registered with the combat system takes
\* non-lethal damage that carries an attacker id, the damage handler has made
\* the monster's AI set aggro on that attacker.
C8_DamagedMonsterAggro ==
  ( /\ sysRet.op \in {"processAttack", "applyDamage"}
    /\ sysRet.damageFired
    /\ sysRet.target \in MonsterIds
    /\ sysRet.target \in DOMAIN entities
    /\ sysRet.attacker # None
    /\ ~stats[sysRet.target].isDead )
  => aiAggro[sysRet.target] = sysRet.attacker

---------------------------------------------------------------------------
(* Properties of the monster and its AI (SpecMonster) *)

\* timers started by the AI that are still scheduled, whether or not a
\* handle field still refers to them
AiTimersPending ==
  \/ ai.wanderTimeout = "pending" \/ ai.aggroTimeout = "pending"
  \/ ai.checkPlayersInterval = "running" \/ ai.attackInterval = "running"
  \/ tm.orphanAggro > 0

\* C5: a monster driven to 0 hp by takeDamage hits (20 hp: 15, then 10) is
\* dead with its respawn scheduled, so that after the respawn delay it is
\* alive again with full hp and an idle AI.
C5_KilledByDamageRespawns ==
  (monRet.op = "takeDamage" /\ mon.isDead /\ monRet.pre # "dead") => tm.respawn > 0

C9_DeadMonsterAiStopped == mon.isDead => (~ai.isActive /\ ~AiTimersPending)

\* C10: once the AI is deactivated none of the timers it started is still
\* scheduled, so no AI timer callback runs afterwards.
C10_InactiveAiNoTimers == ~ai.isActive => ~AiTimersPending

---------------------------------------------------------------------------
(* Properties of validateAttack (SpecValidate) *)

\* the checks of validateAttack, each stated on the arguments of the call
VaInvalid == va.a = None \/ va.t = None
VaAttackerDead == va.a \in DOMAIN va.st /\ va.st[va.a].isDead
VaTargetDead == ~va.options.canTargetDead /\ va.t \in DOMAIN va.st /\ va.st[va.t].isDead
VaCooldown ==
  /\ va.a \in DOMAIN va.st
  /\ StartTime - va.st[va.a].lastAttackTime < va.st[va.a].attackCooldown
VaOutOfRange ==
  ~va.options.ignoreRange /\ ~DamageCalculator_isInRange(va.st, va.a, va.t, va.options)

\* C11: validateAttack reports the first failing check in the order invalid
\* entities, attacker dead, target dead (skipped with canTargetDead), attacker
\* in cooldown, target out of range (skipped with ignoreRange), and reports
\* valid exactly when none of them fails.
C11_ValidatePriority ==
  va.called =>
    va.reason = IF VaInvalid THEN "Entidades inválidas"
                ELSE IF VaAttackerDead THEN "Atacante está morto"
                ELSE IF VaTargetDead THEN "Alvo está morto"
                ELSE IF VaCooldown THEN "Atacante em cooldown"
                ELSE IF VaOutOfRange THEN "Alvo fora de alcance"
                ELSE "valid"

\* a dead target is reported although the attacker is also cooling down and
\* the target is out of range
C11_Witness ==
  /\ va.called /\ va.reason = "Alvo está morto"
  /\ VaCooldown /\ VaOutOfRange

---------------------------------------------------------------------------
(* Properties of the monster AI state machine *)

AiStates == {"idle", "wander", "aggro", "attack"}

\* C12: the monster AI state is always one of idle, wander, aggro, attack,
\* after any sequence of activate, update ticks, timer callbacks,
\* setAggroTarget, loseAggroTarget, wander, deactivate and reset.
C12_AiStateKnown == ai1.state \in AiStates

\* C13: when a monster in aggro ticks and its aggro target is invalid, dead
\* or missing from the directory, it loses aggro in that tick: the aggro
\* target id is cleared and the state is back to idle.
C13_LostTargetClearedInTick ==
  (monRet.op = "update" /\ monRet.pre = "aggro-lost")
    => (ai.aggroTarget = None /\ ai.state = "idle")

\* C14: with a valid live target, a monster in aggro moves to attack in the
\* tick where the target is within attack range, and a monster in attack
\* moves back to aggro in the tick where the target has left attack range
\* (one attack range governs both transitions, so with an unchanged distance
\* the state does not alternate). Stated for the first iteration of the AI.
C14_AttackRangeTransitions ==
  /\ ai1.tick = "aggro-in" => ai1.state = "attack"
  /\ ai1.tick = "attack-out" => ai1.state = "aggro"

\* C15: any two consecutive attacks performed by one monster AI are
\* separated by at least the monster's attack interval. No time passes inside
\* one handler, so no handler carries out two attacks.
C15_AttacksSpaced == ~monRet.twice

---------------------------------------------------------------------------
(* Properties of the status effects (SpecEffects) *)

\* the holder's manager held the effect before the operation just performed
FxWasHeld == fxRet.op # "none" /\ fxRet.pre.held

\* C16: n applications in a row of a stackable effect leave min(n, maxStacks)
\* stacks; removeStacks(k) leaves max(0, stacks - k); and an effect whose
\* stacks reached 0 is no longer held by the holder.
C16_StackingContract ==
  /\ (fx.held /\ fx.e.isStackable /\ fx.applied > 0)
       => fx.e.stacks = Min(fx.applied, fx.e.maxStacks)
  /\ (fxRet.op = "removeStacks" /\ fxRet.pre.e.isStackable /\ fxRet.pre.e.isActive)
       => /\ fx.e.stacks = Max(0, fxRet.pre.e.stacks - fxRet.arg)
          /\ fx.e.stacks = 0 => ~fx.held

\* C17: applyEffect on an id the holder already has keeps the one entry,
\* notifies "updated", gives a stackable effect more stacks (up to maxStacks)
\* and restarts the duration and the removal timer of a non-stackable one.
C17_ReapplyUpdates ==
  (fxRet.op = "apply" /\ fxRet.pre.held)
    => /\ fx.held
       /\ fxRet.notified = {"updated"}
       /\ fx.e.isStackable
            => (fx.e.stacks > fxRet.pre.e.stacks \/ fx.e.stacks = fx.e.maxStacks)
       /\ (~fx.e.isStackable /\ fx.e.duration > 0)
            => (fx.e.endTime = fxNow + fx.e.duration /\ fx.e.removalTimer = fx.e.endTime)

\* C18: an update with a held timed effect past its endTime removes it from
\* the holder and notifies "removed"; whether the timer or the sweep came
\* first, a removed effect has run its remove hook once and "removed" has
\* been notified once.
C18_ExpiredEffectSwept ==
  /\ (fxRet.op = "update" /\ fxRet.pre.held /\ fxRet.pre.e.duration > 0
        /\ fxNow > fxRet.pre.e.endTime)
       => (~fx.held /\ fxRet.notified = {"removed"})
  /\ fx.e.removes <= 1
  /\ fx.removedN <= 1
  /\ (fxRet.op \in {"update", "removeEffect"} /\ fxRet.notified # {})
       => (~fx.held /\ fx.e.removes = 1 /\ fx.removedN = 1)

\* the timer had already removed the effect when the sweep dropped it
C18_Witness ==
  /\ fxRet.op = "update"
  /\ fxRet.pre.held
  /\ ~fxRet.pre.e.isActive
  /\ fxRet.pre.e.removes = 1
  /\ fxRet.pre.e.duration > 0
  /\ fxNow > fxRet.pre.e.endTime
  /\ ~fx.held
  /\ fx.e.removes = 1
  /\ fx.removedN = 1

\* C19: extendDuration and refreshDuration leave a permanent or inactive
\* effect as it is; on an active timed effect the removal timer is due at
\* the recomputed endTime, and the timer never removes the effect before it.
C19_RescheduledToEndTime ==
  /\ fxRet.op \in {"extend", "refresh"}
       => IF ~fxRet.pre.e.isActive \/ fxRet.pre.e.duration = 0
            THEN fx.e = fxRet.pre.e
            ELSE /\ fx.e.endTime = IF fxRet.op = "extend"
                                     THEN fxRet.pre.e.endTime + fxRet.arg
                                     ELSE fxNow + fx.e.duration
                 /\ fx.e.removalTimer = fx.e.endTime
  /\ (fxRet.op = "timer" /\ fxRet.pre.e.isActive) => fxNow >= fxRet.pre.e.endTime

---------------------------------------------------------------------------
(* Properties of the listeners (SpecListeners) *)

\* C20: whenever processAttack or applyDamage triggers an attack, damage or
\* death event, every callback registered for it is invoked, on the stat
\* block and on the combat system, whether or not one of them throws, and
\* the operation returns its normal result.
C20_ListenerFailuresIsolated ==
  lnRet.op \in {"processAttack", "applyDamage"}
    => /\ ~lnRet.threw
       /\ lnRet.attackFired => (lnRet.success /\ lnRet.attack = Len(ln.onAttack))
       /\ lnRet.damageFired
            => (lnRet.damage.invoked = Len(ln.statsDamage)
                /\ lnRet.damage.sysInvoked = Len(ln.onDamage))
       /\ lnRet.deathFired
            => (lnRet.death.invoked = Len(ln.statsDeath)
                /\ lnRet.death.sysInvoked = Len(ln.onDeath))

---------------------------------------------------------------------------
(* Properties of processAttack (SpecAttack) *)

\* one of the checks of validateAttack fails on the arguments of the call
VaFailsValidation ==
  VaInvalid \/ VaAttackerDead \/ VaTargetDead \/ VaCooldown \/ VaOutOfRange

\* C21: a processAttack whose arguments fail validation (invalid entities,
\* dead attacker or target, cooldown active, out of range) returns
\* success:false with a reason, and leaves every stat block as it was (no
\* hp change, no attack timestamp), stores no _lastAttackTime, adds nothing
\* to attackTargets and broadcasts no attack event.
C21_RejectedAttackChangesNothing ==
  (va.called /\ VaFailsValidation)
    => /\ ~va.out.success
       /\ va.out.message # ""
       /\ \A id \in DOMAIN va.st : va.out.stats[id] = va.st[id]
       /\ \A id \in DOMAIN va.out.stats : va.out.stats[id].lastAttackTime # StartTime
       /\ va.out.stamp = NoStamp
       /\ va.out.targets = {}
       /\ ~va.out.attackFired

\* a live attacker in range and ready was refused a dead target
C21_Witness ==
  /\ va.called /\ VaTargetDead
  /\ ~VaInvalid /\ ~VaAttackerDead /\ ~VaCooldown /\ ~VaOutOfRange
  /\ ~va.out.success /\ va.out.message = "Alvo está morto"

---------------------------------------------------------------------------
(* Properties of processSkillUse (SpecSkill) *)

\* position of a call in the calls processSkillUse made, 0 when it was not made
VaStep(call) ==
  IF \E i \in 1 .. Len(va.out.log) : va.out.log[i] = call
    THEN CHOOSE i \in 1 .. Len(va.out.log) : va.out.log[i] = call
    ELSE 0

\* the skill has a cost and was used on an attacker and a target
VaSkillCharged == va.called /\ ~VaInvalid /\ va.skill.mpCost # 0

\* C22: processSkillUse consumes the MP cost before validation. With less MP
\* than the cost it returns success:false and changes neither the MP nor any
\* stat block, without validating; with enough MP the cost is deducted before
\* validateAttack runs (and stays deducted when validation fails); the skill's
\* effects are applied only after its damage.
C22_MpBeforeValidation ==
  /\ (VaSkillCharged /\ va.mp < va.skill.mpCost)
       => /\ ~va.out.success
          /\ va.out.mp = va.mp
          /\ \A id \in DOMAIN va.st : va.out.stats[id] = va.st[id]
          /\ VaStep("validateAttack") = 0
          /\ VaStep("applySkillEffects") = 0
  /\ (VaSkillCharged /\ va.mp >= va.skill.mpCost)
       => /\ va.out.mp = va.mp - va.skill.mpCost
          /\ VaStep("consumeMp") = 1
          /\ VaStep("validateAttack") = 2
  /\ (va.called /\ VaStep("applySkillEffects") # 0)
       => (VaStep("applyDamage") # 0 /\ VaStep("applyDamage") < VaStep("applySkillEffects"))

\* a skill with effects was paid for, and then failed validation on range
C22_Witness ==
  /\ VaSkillCharged /\ va.mp >= va.skill.mpCost /\ va.skill.effects
  /\ ~va.out.success /\ va.out.message = "Alvo fora de alcance"
  /\ va.out.mp = va.mp - va.skill.mpCost

---------------------------------------------------------------------------
(* Properties of setupEntity (SpecListeners) *)

\* the closures of setupEntity in a listener list of the target's stat block
LnSystemClosures(listeners) ==
  Cardinality({i \in 1 .. Len(listeners) : listeners[i] = "system"})

\* C23: setupEntity on an entity that is already registered changes nothing:
\* the registry record and its attackTargets, the listener lists of the stat
\* block and the wiring into the system's damage and death handling are as
\* the first call left them, so every entity is wired at most once.
C23_SetupIdempotent ==
  /\ \A id \in DOMAIN ln.entities : LnSetupEntity(ln, id) = ln
  /\ \A id \in EntityIds : ln.wired[id] = IF id \in DOMAIN ln.entities THEN 1 ELSE 0
  /\ LnSystemClosures(ln.statsDamage) = ln.wired[LnTarget]
  /\ LnSystemClosures(ln.statsDeath) = ln.wired[LnTarget]

\* the target was set up by an attack that succeeded and again by applyDamage
C23_Witness ==
  /\ lnRet.op = "applyDamage"
  /\ LnAttacker \in DOMAIN ln.entities
  /\ ln.entities[LnAttacker] = {LnTarget}
  /\ ln.wired[LnTarget] = 1
  /\ LnSetupEntity(ln, LnTarget) = ln

---------------------------------------------------------------------------
(* Properties of a dead stat block (SpecStats) *)

\* C24: on a dead stat block applyDamage and heal are no-ops: applyDamage
\* returns zero damage with targetDied false, heal returns zero healed, no
\* field changes and no damage, heal or death listener is notified.
C24_DeadBlockInert ==
  cs.isDead
    => /\ \A amount \in DamageAmounts, type \in DamageTypes :
            CombatStats_applyDamage(cs, amount, type)
              = [stats |-> cs, damage |-> 0, targetDied |-> FALSE,
                 deathFired |-> FALSE, damageFired |-> FALSE]
       /\ \A amount \in HealAmounts :
            CombatStats_heal(cs, amount) = [stats |-> cs, healed |-> 0, healFired |-> FALSE]
       /\ (csRet.op = "heal" \/ (csRet.op = "applyDamage" /\ "death" \notin csRet.fired))
            => (csRet.value = 0 /\ ~csRet.targetDied /\ csRet.fired = {})

\* heal was called on a block that had died before
C24_Witness ==
  cs.isDead /\ cs.hp = 0 /\ csDeaths = 1 /\ csRet.op = "heal" /\ csRet.fired = {}

---------------------------------------------------------------------------
(* Properties of the damage mitigation (SpecStats) *)

\* (amount - absorbed) * (1 - resistance / 100) in thousandths, as the
\* specification states it: absorbed = min(amount * 0.6, defense * 0.8) for
\* physical damage and 0 otherwise, "true" damage unreduced
StatedDamage1000(s, amount, type) ==
  IF type = "true" THEN 1000 * amount
  ELSE (10 * amount - (IF type = "physical" THEN Min(6 * amount, 8 * s.defense) ELSE 0))
         * (100 - s.resist[type])

\* the integer nearest to num / 1000, halves going up
Nearest1000(num) ==
  CHOOSE r \in (0 - 10 * MaxAmount) .. (10 * MaxAmount) :
    2000 * r <= 2 * num + 1000 /\ 2 * num + 1000 < 2000 * (r + 1)

\* the stat block of the specification's example: defense 10, no resistance
ExampleBlock ==
  CombatStats_new([level |-> 1, maxHp |-> 0, hp |-> 0, attack |-> 0, defense |-> 10,
                   attackCooldown |-> 0, attackRange |-> 0,
                   resist |-> [t \in DamageTypes |-> 0]])

\* C25 (as stated): applyDamage on a live block lowers hp by
\* round((amount - absorbed) * (1 - resistance / 100)).
C25_HpLossIsRoundedFormula ==
  ~cs.isDead
    => \A amount \in DamageAmounts, type \in DamageTypes :
         cs.hp - CombatStats_applyDamage(cs, amount, type).stats.hp
           = Nearest1000(StatedDamage1000(cs, amount, type))

\* C25 (amended): applyDamage on a live block (hp >= 0) reports the stated
\* amount rounded and never below 0 as its damage, and lowers hp by that
\* damage but not below 0; physical 20 against defense 10 removes exactly 12.
C25_HpLossIsClampedFormula ==
  /\ (~cs.isDead /\ cs.hp >= 0)
       => \A amount \in DamageAmounts, type \in DamageTypes :
            LET r == CombatStats_applyDamage(cs, amount, type)
                stated == Max(0, Nearest1000(StatedDamage1000(cs, amount, type)))
            IN /\ r.damage = stated
               /\ cs.hp - r.stats.hp = Min(cs.hp, stated)
  /\ CombatStats_applyDamage(ExampleBlock, 20, "physical").damage = 12
  /\ CombatStats_applyDamage(ExampleBlock, 20, "physical").stats.hp = ExampleBlock.hp - 12

\* a block with defense 5 has just lost 8 hp to one applyDamage
C25_Witness ==
  csRet.op = "applyDamage" /\ csRet.value = 8 /\ cs.defense = 5 /\ cs.hp = cs.maxHp - 8

---------------------------------------------------------------------------
(* Properties of isInRange (SpecValidate) *)

\* C26: for an attacker and a target that both have a position, isInRange is
\* true exactly when their distance is at most the nominal range (options.range
\* or else the attacker's attack range) times 1.2 plus the target's radius.
C26_RangeToleranceTwentyPercent ==
  (va.a # None /\ va.t # None /\ EntityHasPosition(va.a) /\ EntityHasPosition(va.t))
    => LET nominalRange == IF va.options.range # 0 THEN va.options.range
                           ELSE IF va.a \in DOMAIN va.st THEN va.st[va.a].attackRange
                           ELSE MELEE_RANGE
           distance == Abs(EntityPosition(va.a) - EntityPosition(va.t))
       IN DamageCalculator_isInRange(va.st, va.a, va.t, va.options)
            <=> (100 * distance <= 120 * nominalRange + 100 * EntityRadius(va.t))

---------------------------------------------------------------------------
(* Properties of calculateBasicAttackDamage (SpecDamage) *)

\* C27 (as stated): the basic-attack damage is at least 0 and at most
\* attack * 1.1 * critMultiplier.
C27_DamageWithinStatedBounds ==
  va.called
    => (0 <= va.damage /\ 1000 * va.damage <= va.attack * 110 * CRITICAL_MULTIPLIER)

\* C27 (amended): the basic-attack damage is at least 0 and exceeds
\* attack * 1.1 * critMultiplier * (options.damageMultiplier or 1) by at most
\* the half point that rounding adds.
C27_DamageWithinRoundedBounds ==
  va.called
    => /\ 0 <= va.damage
       /\ 10000 * va.damage
            <= va.attack * 110 * CRITICAL_MULTIPLIER * OrElse(va.multiplier, 10) + 5000

\* a critical hit of attack 1 was rounded up to 2, above 1.65
C27_Witness ==
  va.called /\ va.crit /\ va.attack = 1 /\ va.multiplier = 0 /\ va.damage = 2

---------------------------------------------------------------------------
(* Properties of the player scan, the wander and the respawn *)

\* a live player stands within the aggro radius of the active, live,
\* aggressive monster of the first iteration, which has no aggro target
Ai1PlayerInReach ==
  /\ ai1.isActive /\ ~ai1.isDead /\ ai1.isAggressive /\ ai1.aggroTarget = None
  /\ ai1.plPresent /\ ~ai1.plDead /\ ai1.dist <= ai1.aggroRadius

\* C28: whenever an active aggressive monster has no aggro target and a live
\* player is within aggroRadius, the periodic scan is running and its next
\* run sets the aggro target to that player, also after a target was acquired
\* and lost; the scan of a non-aggressive monster changes nothing.
C28_ScanAcquiresPlayerInReach ==
  /\ Ai1PlayerInReach
       => /\ ai1.checkPlayersInterval
          /\ \A in \in PursuitIns :
               AI1_checkForPlayersInRange([ai1 EXCEPT !.in = in]).aggroTarget = "P1"
  /\ ~ai1.isAggressive
       => \A in \in PursuitIns :
            AI1_checkForPlayersInRange([ai1 EXCEPT !.in = in]) = [ai1 EXCEPT !.in = in]

\* C29: a wander ends in idle: an active, live monster whose wander is over,
\* by arrival at the wander point or by an interruption that stopped it, is
\* no longer in the wander state.
C29_EndedWanderIsIdle ==
  (ai.isActive /\ ~mon.isDead /\ ai.state = "wander") => mon.isMoving

\* C30: respawn() of a dead monster leaves it with hp = maxHp and not dead,
\* and its AI idle, without aggro target, active and with a wander timer
\* pending, whether the monster is aggressive or not.
C30_RespawnResetsMonsterAndAi ==
  mon.isDead
    => LET w == Monster_respawn(World(<<>>, FALSE))
       IN /\ w.mon.hp = w.mon.maxHp /\ ~w.mon.isDead
          /\ w.ai.state = "idle" /\ w.ai.aggroTarget = None /\ w.ai.isActive
          /\ w.ai.wanderTimeout = "pending"

\* C31: server hp wins: after a monsterDamaged event {hp, attackerId} is
\* processed, the monster's hp is the delivered hp whatever it was before,
\* its death flag equals (hp <= 0), and a monster the event leaves alive has
\* its aggro target on the attacker.
C31_ServerHpWins ==
  \A hp \in ServerHps, attackerId \in PlayerIds, rnd \in Draws, step \in BOOLEAN :
    LET w == Game_onMonsterDamaged(World(rnd, step), hp, attackerId)
    IN /\ w.mon.hp = hp
       /\ w.mon.isDead = (hp <= 0)
       /\ ~w.mon.isDead => w.ai.aggroTarget = attackerId

---------------------------------------------------------------------------
(* Properties of the auto-attack loop (SpecAuto) *)

\* C32: the auto-attack loop holds at most one interval timer; a tick that
\* finds auto-attack disabled or its target missing, dead or out of range
\* stops the loop on that target without attacking it; stopAutoAttack leaves
\* no timer of the loop live, and calling it when stopped changes nothing.
C32_AutoAttackSingleTimer ==
  /\ im.live <= 1
  /\ im.autoAttackInterval <=> im.live = 1
  /\ (im.last.op = "tick" /\ im.last.mustStop)
       => /\ im.last.target \notin im.last.attacked
          /\ ~(im.autoAttackInterval /\ im.autoAttackTarget = im.last.target)
  /\ im.last.op = "stop" => (~im.autoAttackInterval /\ im.live = 0)
  /\ ~im.autoAttackInterval => InputManager_stopAutoAttack(im) = im
  /\ InputManager_stopAutoAttack(InputManager_stopAutoAttack(im))
       = InputManager_stopAutoAttack(im)

\* a tick found its target dead and moved the loop to the other monster
C32_Witness ==
  /\ im.last.op = "tick" /\ im.last.mustStop /\ im.last.target # None
  /\ im.mst[im.last.target] = "dead"
  /\ im.autoAttackInterval /\ im.autoAttackTarget # im.last.target /\ im.live = 1

---------------------------------------------------------------------------
(* Properties of the combat records (SpecRegistry) *)

\* C33: combat records live exactly as long as their entity: for an id that
\* is not (or no longer) in the Entity Directory the CombatSystem holds no
\* record, and no record's attackTargets set contains the id.
C33_RecordsDieWithEntity ==
  \A id \in RegIds :
    ~reg.present[id]
      => /\ id \notin DOMAIN reg.entities
         /\ \A a \in DOMAIN reg.entities : id \notin reg.entities[a]

\* C39: whatever setupEntity and removeEntity calls came before, a damage
\* applied to a registered entity is broadcast to the system's damage
\* listeners exactly once and its death exactly once; a damage applied to an
\* entity that is not registered is not broadcast.
C39_OneNotificationPerEvent ==
  reg.last.op # "none"
    => IF reg.last.registered
         THEN /\ reg.last.damageNotes = (IF reg.last.damageFired THEN 1 ELSE 0)
              /\ reg.last.deathNotes = (IF reg.last.deathFired THEN 1 ELSE 0)
         ELSE reg.last.damageNotes = 0 /\ reg.last.deathNotes = 0

---------------------------------------------------------------------------
(* Properties of the entity and its stat block (SpecSync) *)

---------------------------------------------------------------------------
(* Properties of the AI's state, target and timers (SpecMonster) *)

\* C35: a monster AI in state aggro or attack has an aggro target, and a dead
\* monster or an inactive AI is in neither state, whatever handler ran last
C35_StateTargetConsistent ==
  /\ ai.state \in {"aggro", "attack"} => ai.aggroTarget # None
  /\ (mon.isDead \/ ~ai.isActive) => ai.state \notin {"aggro", "attack"}

\* C37: when the monster's own respawn timer is still pending although the
\* monster is alive again (the server's monsterRespawn came first), the timer's
\* respawn leaves the monster's hp and the AI's state and aggro target as they are
C37_RespawnOncePerDeath ==
  (~mon.isDead /\ tm.respawn > 0) =>
    LET w == Monster_respawn([World(<<>>, FALSE) EXCEPT !.tm.respawn = @ - 1])
    IN /\ w.mon.hp = mon.hp
       /\ w.ai.state = ai.state
       /\ w.ai.aggroTarget = ai.aggroTarget

\* C38: at most one aggro-loss timer is pending, and once setAggroTarget(p)
\* has taken a living player within pursuit range as target, no aggro-loss
\* timer that is still pending from before clears that target when it fires
C38_StaleAggroLossIsHarmless ==
  /\ tm.orphanAggro + (IF ai.aggroTimeout = "pending" THEN 1 ELSE 0) <= 1
  /\ \A p \in PlayerIds, rnd \in Draws, step \in BOOLEAN :
       LET w == AI_setAggroTarget(World(rnd, step), p)
       IN ( /\ ai.isActive /\ ~mon.isDead
            /\ pl[p].present /\ ~pl[p].isDead
            /\ 10 * pl[p].dist <= mon.aggroRange * 15 ) =>
            /\ w.ai.aggroTarget = p
            /\ w.ai.state \in {"aggro", "attack"}
            /\ w.ai.aggroTimeout = "pending" =>
                 AggroLostCallback([w EXCEPT !.ai.aggroTimeout = "null"]).ai.aggroTarget = p
            /\ w.tm.orphanAggro > 0 =>
                 AggroLostCallback([w EXCEPT !.tm.orphanAggro = @ - 1]).ai.aggroTarget = p

---------------------------------------------------------------------------
(* Properties of two entities attacking each other (SpecDuel) *)

\* C40: a processAttack or processSkillUse whose attacker's stat block is dead
\* is rejected and leaves the target's hp as it was, and in no interleaving of
\* the two entities' attacks on each other are both stat blocks dead
C40_DeadAttackerIsRejected ==
  /\ duel.last.attackerDead => (~duel.last.success /\ ~duel.last.hpChanged)
  /\ ~(duel.st["m1"].isDead /\ duel.st["m2"].isDead)

\* the entity that died in the exchange has just tried to use a skill on the
\* survivor
C40_Witness ==
  /\ duel.last.attackerDead
  /\ duel.last.op = "processSkillUse"
  /\ duel.st[duel.last.a].isDead

====
